---- MODULE Spec2Model ----
(***************************************************************************)
(* Model of the document ingestion and reconciliation engine of            *)
(* layer-builder: the spreadsheet sheet walker (excel_parser.py), the PDF  *)
(* per-document parse (pdf_parser.py) and the two merge functions.         *)
(*                                                                         *)
(* Amounts are integers in units of 1,000 dollars (50000 is $50,000,000).  *)
(* Shares are Python floats, kept bit for bit.  The text of a PDF and the   *)
(* cells of a spreadsheet are drawn from small vocabularies over which the *)
(* regular expressions of the code are tabulated.                          *)
(***************************************************************************)
EXTENDS Integers, Sequences, FiniteSets, TLC

VARIABLES
    call,             \* which exposed function the session is exercising
    excel_data_list,  \* argument of merge_excel_programs
    excel_merged,     \* <<>> before the call, Some(result) after it
    parsed_docs,      \* argument of merge_parsed_documents
    pdf_merged,       \* <<>> before the call, Some(result) after it
    pdf_file,         \* <<>>, or <<file>>: the argument of parse_insurance_pdf
    pdf_result,       \* <<>> before parse_insurance_pdf returns, Some(result) after
    layer_text,       \* <<>>, or <<text>>: the argument of extract_layer_from_text
    layer_found,      \* <<>> before extract_layer_from_text returns, Some(result) after
    part_of_text,     \* <<>>, or <<text>>: the argument of extract_part_of_patterns
    part_of_found,    \* <<>> before extract_part_of_patterns returns, Some(result) after
    DEBUG_PARSING,    \* the module-level debug flag of excel_parser.py
    debug,            \* the debug argument of the running parse_excel_program
    original_debug,   \* its local original_debug
    pc,               \* position of parse_excel_program
    workbook,         \* the kind of workbook it was given
    sheet,            \* number of the sheet being walked
    rows_read,        \* rows read so far from the workbook
    all_layers,       \* its local all_layers
    current_layer,    \* its local current_layer, None or Some(layer)
    col_map,          \* its local col_map
    excel_result,     \* <<>> before parse_excel_program returns, Some(result) after
    pending_at_sheet_end,  \* history: layers with carriers pending when a sheet ended
    last_header,      \* history: the limit and attachment of the last layer
                      \* header of the current sheet that stated its layer
    raised,           \* history: an exception was raised inside the try block
    traced,           \* history: the call has logged a debug line
    reference,        \* history: the walker state a call with the debug blocks
                      \* switched off has after the same rows, and the
                      \* exception that ended it
    calls             \* two parse_excel_program calls running concurrently: for
                      \* each its position, debug argument, original_debug and
                      \* whether it has logged a debug line

walker_locals == <<debug, original_debug, pc, workbook, sheet, rows_read,
                   all_layers, current_layer, col_map, excel_result,
                   pending_at_sheet_end, last_header, raised, traced,
                   reference>>

walker_vars == <<DEBUG_PARSING, walker_locals>>

merge_vars == <<excel_data_list, excel_merged, parsed_docs, pdf_merged>>

pdf_vars == <<pdf_file, pdf_result>>

recognizer_vars == <<layer_text, layer_found, part_of_text, part_of_found>>

vars == <<call, merge_vars, pdf_vars, recognizer_vars, walker_vars, calls>>

----------------------------------------------------------------------------
(* Bounds of the model *)

MaxDocs == 3          \* parse results in one merge call
MaxLayers == 2        \* layers in one parse result
MaxCarriers == 2      \* carriers in one layer of a parse result
MaxEntries == 3       \* carrier entries in the spreadsheet parse results of one call
MaxSheets == 2        \* sheets of a workbook
MaxRows == 5          \* rows of a workbook

----------------------------------------------------------------------------
(* Generic helpers *)

None == <<>>
Some(x) == <<x>>

Min(S) == CHOOSE x \in S : \A y \in S : x <= y

RECURSIVE SumSeq(_)
SumSeq(s) == IF s = <<>> THEN 0 ELSE Head(s) + SumSeq(Tail(s))

SeqsUpTo(S, n) == UNION {[1..k -> S] : k \in 0..n}

Range(s) == {s[i] : i \in 1..Len(s)}

----------------------------------------------------------------------------
(* Python floats.  A share is an IEEE 754 double, kept exactly as a binary *)
(* fixed-point number: limb 1 is the integer part and limbs 2 to 11 are    *)
(* the next 80 bits, 8 to a limb (0.5 is <<0, 128, 0, ...>>).  Every       *)
(* double from 2^-27 up to 256 has its 53 bits inside the limbs; amounts   *)
(* are below 2^23 thousands so that no step leaves 32 bits.                *)

LimbBits == 8
LimbBase == 2^LimbBits
FractionLimbs == 10
FloatBits == LimbBits * (1 + FractionLimbs)
Mantissa == 53

Float(n) == [i \in 1..(1 + FractionLimbs) |-> IF i = 1 THEN n ELSE 0]

\* bit k of x, bit 1 the highest bit of the integer part
Bit(x, k) ==
    (x[(k - 1) \div LimbBits + 1]
        \div 2^(LimbBits - 1 - ((k - 1) % LimbBits))) % 2

\* x plus w units of limb j, the carry going up
RECURSIVE AddAt(_, _, _)
AddAt(x, j, w) ==
    IF x[j] + w < LimbBase \/ j = 1 THEN [x EXCEPT ![j] = @ + w]
    ELSE AddAt([x EXCEPT ![j] = @ + w - LimbBase], j - 1, 1)

\* round to nearest, ties to even, at 53 significant bits: x holds the bits
\* computed so far and inexact says that nonzero bits follow them
RoundToDouble(x, inexact) ==
    LET ones == {k \in 1..FloatBits : Bit(x, k) = 1}
    IN  IF ones = {} \/ Min(ones) + Mantissa > FloatBits THEN x
        ELSE LET last == Min(ones) + Mantissa - 1
                 j == (last - 1) \div LimbBits + 1
                 w == 2^(LimbBits * j - last)
                 kept == [i \in 1..Len(x) |->
                             IF i < j THEN x[i]
                             ELSE IF i = j THEN x[i] - (x[i] % w)
                             ELSE 0]
                 more == inexact \/ \E k \in ones : k > last + 1
             IN  IF Bit(x, last + 1) = 1 /\ (more \/ Bit(x, last) = 1)
                 THEN AddAt(kept, j, w)
                 ELSE kept

\* the next n limbs of the long division of r by b
RECURSIVE QuotientLimbs(_, _, _)
QuotientLimbs(r, b, n) ==
    IF n = 0 THEN <<>>
    ELSE <<(r * LimbBase) \div b>>
         \o QuotientLimbs((r * LimbBase) % b, b, n - 1)

\* what the long division of r by b leaves after n limbs
RECURSIVE RemainderAfter(_, _, _)
RemainderAfter(r, b, n) ==
    IF n = 0 THEN r ELSE RemainderAfter((r * LimbBase) % b, b, n - 1)

\* a / b of two floats that hold the whole numbers a and b
FloatDivide(a, b) ==
    RoundToDouble(<<a \div b>> \o QuotientLimbs(a % b, b, FractionLimbs),
                  RemainderAfter(a % b, b, FractionLimbs) # 0)

\* x < y
FloatLess(x, y) ==
    \E i \in 1..Len(x) : x[i] < y[i] /\ \A j \in 1..(i - 1) : x[j] = y[j]

\* 1 when subtracting the limbs below limb i borrows from it
RECURSIVE BorrowFrom(_, _, _)
BorrowFrom(x, y, i) ==
    IF i = Len(x) THEN 0
    ELSE IF x[i + 1] - BorrowFrom(x, y, i + 1) < y[i + 1] THEN 1
    ELSE 0

\* the real number |x - y|
Distance(x, y) ==
    LET hi == IF FloatLess(x, y) THEN y ELSE x
        lo == IF FloatLess(x, y) THEN x ELSE y
    IN  [i \in 1..Len(x) |->
            (hi[i] - lo[i] - BorrowFrom(hi, lo, i) + LimbBase) % LimbBase]

\* abs(x - y)
FloatAbsDiff(x, y) == RoundToDouble(Distance(x, y), FALSE)

\* the float literal 0.0001: 7378697629483821 * 2^-66
Tolerance == <<0, 0, 6, 141, 184, 186, 199, 16, 203, 64, 0>>

\* the carry into limb i of x + y, then limbs i and below of the sum
RECURSIVE AddLimbs(_, _, _)
AddLimbs(x, y, i) ==
    IF i > Len(x) THEN <<0>>
    ELSE LET below == AddLimbs(x, y, i + 1)
             here == x[i] + y[i] + below[1]
         IN  IF i = 1 THEN <<here>> \o Tail(below)
             ELSE <<here \div LimbBase, here % LimbBase>> \o Tail(below)

\* x + y of two floats: the real sum, which the limbs hold exactly, rounded
FloatAdd(x, y) == RoundToDouble(AddLimbs(x, y, 1), FALSE)

\* the float literal 0.01: 5764607523034235 * 2^-59
OneHundredth == <<0, 2, 143, 92, 40, 245, 194, 143, 96, 0, 0>>

----------------------------------------------------------------------------
(* Shares and carrier records *)

\* excel_parser.py 757-762
ShareOf(line_amount, layer_limit) ==
    IF layer_limit > 0 /\ line_amount > 0
    THEN FloatDivide(line_amount, layer_limit)
    ELSE Float(0)

\* excel_parser.py 771-780
carrier_data(carrier_name, share, premium, carrier_fee, surplus_fee) ==
    [carrier_name |-> carrier_name, share |-> share, premium |-> premium,
     carrier_fee |-> carrier_fee, surplus_fee |-> surplus_fee,
     policy_number |-> ""]

NewLayer(limit, attachment, is_primary) ==
    [limit |-> limit, attachment |-> attachment, is_primary |-> is_primary,
     carriers |-> <<>>]

LayerKey(layer) == <<layer.limit, layer.attachment>>

----------------------------------------------------------------------------
(* sorted(layer_dict.values(), key=attachment): a stable sort *)

RECURSIVE InsertByAttachment(_, _)
InsertByAttachment(sorted, layer) ==
    IF sorted = <<>> THEN <<layer>>
    ELSE IF sorted[Len(sorted)].attachment <= layer.attachment
         THEN Append(sorted, layer)
         ELSE Append(InsertByAttachment(SubSeq(sorted, 1, Len(sorted) - 1), layer),
                     sorted[Len(sorted)])

SortByAttachment_Unsorted(layers) == layers

RECURSIVE SortByAttachment(_)
SortByAttachment(layers) ==
    IF layers = <<>> THEN <<>>
    ELSE InsertByAttachment(SortByAttachment(SubSeq(layers, 1, Len(layers) - 1)),
                            layers[Len(layers)])

----------------------------------------------------------------------------
(* Objects.  A dict of the argument of a merge is named by its place in the *)
(* argument; a dict the merge builds has no such name.  Two entries with    *)
(* the same name are one object, and an assignment to one is seen in both.  *)

\* the dict d of the argument, as the object at place
Object(d, place) ==
    [f \in DOMAIN d \cup {"id"} |-> IF f = "id" THEN place ELSE d[f]]

\* the items of a dict: what == compares
Items(d) == [f \in DOMAIN d \ {"id"} |-> d[f]]

copy_SameObject(d) == d

\* excel_parser.py 918: dict.copy(), a new dict with the items of d
copy(d) == Items(d)

----------------------------------------------------------------------------
(* merge_excel_programs *)

IsExactDuplicate_NameOnly(existing, carrier) ==
    existing.carrier_name = carrier.carrier_name

IsExactDuplicate_ShareOnly(existing, carrier) ==
    FloatLess(FloatAbsDiff(existing.share, carrier.share), Tolerance)

\* excel_parser.py 905-908
IsExactDuplicate(existing, carrier) ==
    /\ existing.carrier_name = carrier.carrier_name
    /\ FloatLess(FloatAbsDiff(existing.share, carrier.share), Tolerance)

FirstDuplicate_LastEntryOnly(carriers, carrier) ==
    IF carriers # <<>> /\ IsExactDuplicate(carriers[Len(carriers)], carrier)
    THEN Len(carriers)
    ELSE 0

\* index of the first entry the inner for loop breaks on, 0 when it runs out
FirstDuplicate(carriers, carrier) ==
    LET hits == {i \in 1..Len(carriers) : IsExactDuplicate(carriers[i], carrier)}
    IN  IF hits = {} THEN 0 ELSE Min(hits)

AddExcelCarrier_NoSum(carriers, carrier) ==
    IF FirstDuplicate(carriers, carrier) = 0 THEN Append(carriers, copy(carrier))
    ELSE carriers

AddExcelCarrier_SumsPremiumOnly(carriers, carrier) ==
    LET i == FirstDuplicate(carriers, carrier)
    IN  IF i = 0
        THEN Append(carriers, copy(carrier))
        ELSE [carriers EXCEPT ![i].premium = @ + carrier.premium]

\* excel_parser.py 901-918: one iteration of the carrier loop: the sums at
\* 910-912 go to the entry of the bucket, a copy of the carrier is appended
AddExcelCarrier(carriers, carrier) ==
    LET i == FirstDuplicate(carriers, carrier)
    IN  IF i = 0
        THEN Append(carriers, copy(carrier))
        ELSE [carriers EXCEPT
                ![i].premium = @ + carrier.premium,
                ![i].carrier_fee = @ + carrier.carrier_fee,
                ![i].surplus_fee = @ + carrier.surplus_fee]

RECURSIVE AddExcelCarriers(_, _)
AddExcelCarriers(carriers, incoming) ==
    IF incoming = <<>> THEN carriers
    ELSE AddExcelCarriers(AddExcelCarrier(carriers, Head(incoming)), Tail(incoming))

KeyIndex_AttachmentOnly(layer_dict, key) ==
    LET hits == {i \in 1..Len(layer_dict) : layer_dict[i].attachment = key[2]}
    IN  IF hits = {} THEN 0 ELSE Min(hits)

\* position of key in the insertion-ordered dict, 0 when absent
KeyIndex(layer_dict, key) ==
    LET hits == {i \in 1..Len(layer_dict) : LayerKey(layer_dict[i]) = key}
    IN  IF hits = {} THEN 0 ELSE Min(hits)

\* excel_parser.py 891-897
EnsureBucket(layer_dict, limit, attachment, is_primary) ==
    IF KeyIndex(layer_dict, <<limit, attachment>>) = 0
    THEN Append(layer_dict, NewLayer(limit, attachment, is_primary))
    ELSE layer_dict

\* excel_parser.py 888-918: one iteration of the layer loop
MergeExcelLayer(layer_dict, layer) ==
    LET d == EnsureBucket(layer_dict, layer.limit, layer.attachment, layer.is_primary)
        k == KeyIndex(d, LayerKey(layer))
    IN  [d EXCEPT ![k].carriers = AddExcelCarriers(@, layer.carriers)]

RECURSIVE MergeExcelLayers(_, _)
MergeExcelLayers(layer_dict, layers) ==
    IF layers = <<>> THEN layer_dict
    ELSE MergeExcelLayers(MergeExcelLayer(layer_dict, Head(layers)), Tail(layers))

RECURSIVE MergeExcelDocs_StopAtFailure(_, _)
MergeExcelDocs_StopAtFailure(layer_dict, docs) ==
    IF docs = <<>> THEN layer_dict
    ELSE IF ~Head(docs).success THEN layer_dict
         ELSE MergeExcelDocs_StopAtFailure(
                  MergeExcelLayers(layer_dict, Head(docs).layers), Tail(docs))

\* excel_parser.py 884-918: the document loop
RECURSIVE MergeExcelDocs(_, _)
MergeExcelDocs(layer_dict, docs) ==
    IF docs = <<>> THEN layer_dict
    ELSE IF ~Head(docs).success
         THEN MergeExcelDocs(layer_dict, Tail(docs))
         ELSE MergeExcelDocs(MergeExcelLayers(layer_dict, Head(docs).layers),
                             Tail(docs))

\* excel_parser.py 869-927
merge_excel_programs(excel_data) ==
    [layers |-> SortByAttachment(MergeExcelDocs(<<>>, excel_data)),
     documents_processed |->
         Cardinality({i \in 1..Len(excel_data) : excel_data[i].success}),
     documents_failed |->
         Cardinality({i \in 1..Len(excel_data) : ~excel_data[i].success})]

----------------------------------------------------------------------------
(* merge_parsed_documents *)

\* index of the first entry with this carrier name, 0 when there is none
FirstByName(carriers, carrier_name) ==
    LET hits == {i \in 1..Len(carriers) : carriers[i].carrier_name = carrier_name}
    IN  IF hits = {} THEN 0 ELSE Min(hits)

\* pdf_parser.py 526-555: one part-of allocation into its bucket: the sum at
\* 539 goes to the entry of the bucket, the dict appended at 542-553 is new
AddPartOfCarrier(carriers, part_of, policy_number) ==
    LET i == FirstByName(carriers, part_of.carrier_name)
    IN  IF i # 0
        THEN [carriers EXCEPT ![i].premium = @ + part_of.carrier_limit]
        ELSE Append(carriers,
                    [carrier_data(part_of.carrier_name, part_of.share,
                                  part_of.carrier_limit, 0, 0)
                        EXCEPT !.policy_number = policy_number])

\* pdf_parser.py 518-555: one iteration of the part-of loop
MergePartOf(layer_dict, part_of, policy_number) ==
    LET d == EnsureBucket(layer_dict, part_of.layer_limit, part_of.attachment,
                          part_of.is_primary)
        k == KeyIndex(d, <<part_of.layer_limit, part_of.attachment>>)
    IN  [d EXCEPT ![k].carriers = AddPartOfCarrier(@, part_of, policy_number)]

RECURSIVE MergePartOfs(_, _, _)
MergePartOfs(layer_dict, part_ofs, policy_number) ==
    IF part_ofs = <<>> THEN layer_dict
    ELSE MergePartOfs(MergePartOf(layer_dict, Head(part_ofs), policy_number),
                      Tail(part_ofs), policy_number)

\* pdf_parser.py 573-596: one plain carrier/percentage pair into a bucket:
\* the sum at 582 goes to the entry of the bucket, the dict appended at
\* 585-596 is new
AddPlainCarrier(carriers, carrier, policy_number) ==
    LET i == FirstByName(carriers, carrier.carrier_name)
    IN  IF i # 0
        THEN [carriers EXCEPT ![i].premium = @ + carrier.premium]
        ELSE Append(carriers,
                    [carrier_data(carrier.carrier_name, carrier.share,
                                  carrier.premium, 0, 0)
                        EXCEPT !.policy_number = policy_number])

RECURSIVE AddPlainCarriers(_, _, _)
AddPlainCarriers(carriers, incoming, policy_number) ==
    IF incoming = <<>> THEN carriers
    ELSE AddPlainCarriers(AddPlainCarrier(carriers, Head(incoming), policy_number),
                          Tail(incoming), policy_number)

MergeLimit_AlwaysAttach(layer_dict, limit_info, doc) ==
    LET d == EnsureBucket(layer_dict, limit_info.limit, limit_info.attachment,
                          limit_info.is_primary)
        k == KeyIndex(d, <<limit_info.limit, limit_info.attachment>>)
    IN  [d EXCEPT ![k].carriers =
             AddPlainCarriers(@, doc.carriers, doc.policy_number)]

\* pdf_parser.py 558-596: one iteration of the plain-limit loop
MergeLimit(layer_dict, limit_info, doc) ==
    LET d == EnsureBucket(layer_dict, limit_info.limit, limit_info.attachment,
                          limit_info.is_primary)
        k == KeyIndex(d, <<limit_info.limit, limit_info.attachment>>)
    IN  IF d[k].carriers = <<>>
        THEN [d EXCEPT ![k].carriers =
                  AddPlainCarriers(@, doc.carriers, doc.policy_number)]
        ELSE d

RECURSIVE MergeLimits(_, _, _)
MergeLimits(layer_dict, limits, doc) ==
    IF limits = <<>> THEN layer_dict
    ELSE MergeLimits(MergeLimit(layer_dict, Head(limits), doc), Tail(limits), doc)

\* pdf_parser.py 516-596: the body of the document loop
MergePdfDoc(layer_dict, doc) ==
    MergeLimits(MergePartOfs(layer_dict, doc.part_of_data, doc.policy_number),
                doc.limits, doc)

RECURSIVE MergePdfDocs_StopAtFailure(_, _)
MergePdfDocs_StopAtFailure(layer_dict, docs) ==
    IF docs = <<>> THEN layer_dict
    ELSE IF ~Head(docs).success THEN layer_dict
         ELSE MergePdfDocs_StopAtFailure(MergePdfDoc(layer_dict, Head(docs)),
                                         Tail(docs))

\* pdf_parser.py 512-596: the document loop
RECURSIVE MergePdfDocs(_, _)
MergePdfDocs(layer_dict, docs) ==
    IF docs = <<>> THEN layer_dict
    ELSE IF ~Head(docs).success
         THEN MergePdfDocs(layer_dict, Tail(docs))
         ELSE MergePdfDocs(MergePdfDoc(layer_dict, Head(docs)), Tail(docs))

\* pdf_parser.py 499-605
merge_parsed_documents(docs) ==
    [layers |-> SortByAttachment(MergePdfDocs(<<>>, docs)),
     documents_processed |-> Cardinality({i \in 1..Len(docs) : docs[i].success}),
     documents_failed |-> Cardinality({i \in 1..Len(docs) : ~docs[i].success})]

----------------------------------------------------------------------------
(* Spreadsheet cells.  A cell is a text or a number; the empty text stands *)
(* for an empty cell.  The regular expressions of excel_parser.py are      *)
(* tabulated over the texts of the row pool.                               *)

T(s) == [kind |-> "text", text |-> s, num |-> 0]
N(n) == [kind |-> "num", text |-> "", num |-> n]

\* Python truth value of a cell
Truthy(cell) == IF cell.kind = "num" THEN cell.num # 0 ELSE cell.text # ""

AnyTruthy(row) == \E i \in 1..Len(row) : Truthy(row[i])

InTexts(cell, S) == cell.kind = "text" /\ cell.text \in S

Max(S) == CHOOSE x \in S : \A y \in S : x >= y

Million == 1000       \* 1,000,000 dollars in amount units

\* the text cells of the row pool
Texts ==
    {"", "$50M Primary", "$50M xs $50M", "$100M Primary", "ALL RISKS EX ZURICH LEAD", "Participant", "Line", "Premium", "Fees", "SL Tax", "Acme Re", "Beta Mutual", "TOTAL", "------", "Total", "$50M xs $50M Primary", "$50M Terrorism"}

\* excel_parser.py 417: str(v).strip() is empty
BlankTexts ==
    {""}

\* excel_parser.py 422-432: skip_patterns on the first cell
SkipPatternTexts ==
    {"------"}

\* excel_parser.py 393-401: total indicators
TotalTexts ==
    {"TOTAL", "Total"}

\* excel_parser.py 244-257: carrier_indicators
CarrierIndicatorTexts ==
    {}

\* excel_parser.py 112-125: <<limit, attachment>> of the excess pattern
ExcessPattern(text) ==
    CASE text = "$50M xs $50M" -> <<50000, 50000>>
      [] text = "$50M xs $50M Primary" -> <<50000, 50000>>
      [] OTHER -> <<>>

\* excel_parser.py 140-149: <<limit>> of the primary pattern
PrimaryPattern(text) ==
    CASE text = "$50M Primary" -> <<50000>>
      [] text = "$100M Primary" -> <<100000>>
      [] text = "$50M xs $50M Primary" -> <<50000>>
      [] OTHER -> <<>>

\* excel_parser.py 163-168: <<limit>> of the standalone pattern
StandalonePattern(text) ==
    CASE text = "$50M Primary" -> <<50000>>
      [] text = "$50M xs $50M" -> <<50000>>
      [] text = "$100M Primary" -> <<100000>>
      [] text = "$50M xs $50M Primary" -> <<50000>>
      [] text = "$50M Terrorism" -> <<50000>>
      [] OTHER -> <<>>

\* excel_parser.py 171, 304: "primary" in the lowered text
PrimaryWordTexts ==
    {"$50M Primary", "$100M Primary", "$50M xs $50M Primary"}

\* excel_parser.py 172: "ex" or "xs" in the lowered text
ExOrXsTexts ==
    {"$50M xs $50M", "ALL RISKS EX ZURICH LEAD", "$50M xs $50M Primary"}

\* excel_parser.py 178-188: layer_keywords
LayerKeywordTexts ==
    {"$50M Primary", "$100M Primary", "ALL RISKS EX ZURICH LEAD", "$50M xs $50M Primary", "$50M Terrorism"}

\* excel_parser.py 188-190: the whole text is $<amount><suffix>
StrictAmountTexts ==
    {}

\* excel_parser.py 268-272: excess pattern without $
NoDollarExcessTexts ==
    {}

\* excel_parser.py 274: $ inserted before numeric tokens
InsertDollars(text) ==
    text

\* excel_parser.py 284-290: special_layer_patterns
SpecialLayerTexts ==
    {"ALL RISKS EX ZURICH LEAD", "$50M Terrorism"}

\* excel_parser.py 49-81: parse_currency of a text
ParseCurrencyText(text) ==
    CASE text = "$50M Primary" -> 50000
      [] text = "$50M xs $50M" -> 5050000
      [] text = "$100M Primary" -> 100000
      [] text = "$50M xs $50M Primary" -> 5050000
      [] text = "$50M Terrorism" -> 50000
      [] OTHER -> 0

\* excel_parser.py 354-368: what one cell adds to keyword_matches
HeaderKeywordCount(text) ==
    CASE text = "Participant" -> 2
      [] text = "Line" -> 2
      [] text = "Premium" -> 2
      [] text = "Fees" -> 2
      [] text = "SL Tax" -> 2
      [] text = "TOTAL" -> 2
      [] text = "Total" -> 2
      [] OTHER -> 0

\* excel_parser.py 462-464: first cell holds a layer pattern
LayerLikeTexts ==
    {"$50M xs $50M", "$50M xs $50M Primary"}

\* excel_parser.py 467-473
FirstCellHeaderTexts ==
    {"Participant", "Line", "Premium"}

\* excel_parser.py 477-478
OtherCellHeaderTexts ==
    {"Participant", "Line", "Premium"}

\* excel_parser.py 490-522: the role a header cell maps to
ColumnRole(text) ==
    CASE text = "Participant" -> "carrier"
      [] text = "Line" -> "line"
      [] text = "Premium" -> "premium"
      [] text = "Fees" -> "fees"
      [] text = "SL Tax" -> "sl_tax"
      [] text = "TOTAL" -> "total"
      [] text = "Total" -> "total"
      [] OTHER -> ""

\* excel_parser.py 663-693: skip_names
SkipNameTexts ==
    {"Participant", "Line", "Premium", "Fees", "SL Tax", "TOTAL", "Total"}

\* excel_parser.py 702: fewer than 3 characters
ShortNameTexts ==
    {""}

\* excel_parser.py 710: looks like a number or currency
NumericLookingTexts ==
    {"------"}

\* excel_parser.py 33-81
parse_currency(cell) ==
    IF cell.kind = "num" THEN cell.num ELSE ParseCurrencyText(cell.text)

----------------------------------------------------------------------------
(* Layer Pattern Recognizer and Row Classifier *)

LayerInfo(limit, attachment, is_primary) ==
    [limit |-> limit, attachment |-> attachment, is_primary |-> is_primary]

extract_layer_from_text_PrimaryFirst(text) ==
    IF text = "" THEN None
    ELSE IF PrimaryPattern(text) # <<>>
    THEN Some(LayerInfo(PrimaryPattern(text)[1], 0, TRUE))
    ELSE IF ExcessPattern(text) # <<>>
    THEN Some(LayerInfo(ExcessPattern(text)[1], ExcessPattern(text)[2], FALSE))
    ELSE IF /\ StandalonePattern(text) # <<>>
            /\ StandalonePattern(text)[1] > 0
            /\ (text \in LayerKeywordTexts \/ text \in StrictAmountTexts)
    THEN Some(LayerInfo(StandalonePattern(text)[1], 0,
                        text \in PrimaryWordTexts \/ text \notin ExOrXsTexts))
    ELSE None

\* excel_parser.py 84-215
extract_layer_from_text(text) ==
    IF text = "" THEN None
    ELSE IF ExcessPattern(text) # <<>>
    THEN Some(LayerInfo(ExcessPattern(text)[1], ExcessPattern(text)[2], FALSE))
    ELSE IF PrimaryPattern(text) # <<>>
    THEN Some(LayerInfo(PrimaryPattern(text)[1], 0, TRUE))
    ELSE IF /\ StandalonePattern(text) # <<>>
            /\ StandalonePattern(text)[1] > 0
            /\ (text \in LayerKeywordTexts \/ text \in StrictAmountTexts)
    THEN Some(LayerInfo(StandalonePattern(text)[1], 0,
                        text \in PrimaryWordTexts \/ text \notin ExOrXsTexts))
    ELSE None

\* excel_parser.py 296-315: the cells that complete a special layer header
SiblingLimits(row, i) ==
    {j \in 1..Len(row) :
        j # i /\ Truthy(row[j]) /\ parse_currency(row[j]) >= Million}

\* excel_parser.py 239-317: one iteration of the loop over the first 2 cells;
\* None when the loop continues, Some(what it returns) when it returns
LayerHeaderCell(row, i) ==
    LET cell == row[i]
        text == cell.text
    IN  IF ~(Truthy(cell) /\ cell.kind = "text") THEN <<>>
        ELSE IF text \in CarrierIndicatorTexts THEN <<>>
        ELSE IF extract_layer_from_text(text) # None
        THEN <<[is_layer |-> TRUE, layer_info |-> extract_layer_from_text(text)]>>
        ELSE IF /\ text \in NoDollarExcessTexts
                /\ extract_layer_from_text(InsertDollars(text)) # None
        THEN <<[is_layer |-> TRUE,
                layer_info |-> extract_layer_from_text(InsertDollars(text))]>>
        ELSE IF text \in SpecialLayerTexts
        THEN IF SiblingLimits(row, i) = {}
             THEN <<[is_layer |-> TRUE, layer_info |-> None]>>
             ELSE <<[is_layer |-> TRUE,
                     layer_info |->
                         Some(LayerInfo(parse_currency(row[Min(SiblingLimits(row, i))]),
                                        0, text \in PrimaryWordTexts))]>>
        ELSE <<>>

\* excel_parser.py 218-319
is_layer_header_row(row) ==
    IF ~AnyTruthy(row) THEN [is_layer |-> FALSE, layer_info |-> None]
    ELSE IF Len(row) >= 1 /\ LayerHeaderCell(row, 1) # <<>>
    THEN LayerHeaderCell(row, 1)[1]
    ELSE IF Len(row) >= 2 /\ LayerHeaderCell(row, 2) # <<>>
    THEN LayerHeaderCell(row, 2)[1]
    ELSE [is_layer |-> FALSE, layer_info |-> None]

RECURSIVE KeywordMatches(_)
KeywordMatches(row) ==
    IF row = <<>> THEN 0
    ELSE (IF InTexts(Head(row), Texts) THEN HeaderKeywordCount(Head(row).text) ELSE 0)
         + KeywordMatches(Tail(row))

\* excel_parser.py 322-377
is_participant_header_row(row) ==
    AnyTruthy(row) /\ KeywordMatches(row) >= 3

\* excel_parser.py 380-406
is_total_row(row) ==
    \E i \in 1..Len(row) : i <= 4 /\ InTexts(row[i], TotalTexts)

\* excel_parser.py 409-434
is_skip_row(row) ==
    \/ ~AnyTruthy(row)
    \/ \A i \in 1..Len(row) : InTexts(row[i], BlankTexts)
    \/ InTexts(row[1], SkipPatternTexts)

----------------------------------------------------------------------------
(* Column Mapper.  Column indexes are 0-based as in the code. *)

NoCol == -1

\* col_map = {}
EmptyColMap ==
    [carrier |-> NoCol, line |-> NoCol, ppm |-> NoCol, premium |-> NoCol,
     fees |-> NoCol, sl_tax |-> NoCol, total |-> NoCol, data_start_col |-> NoCol]

\* excel_parser.py 455-480
StartCol(row) ==
    IF Len(row) > 0 /\ Truthy(row[1])
    THEN IF InTexts(row[1], LayerLikeTexts) THEN 1
         ELSE IF /\ ~InTexts(row[1], FirstCellHeaderTexts)
                 /\ \E i \in 2..Len(row) :
                        i <= 5 /\ InTexts(row[i], OtherCellHeaderTexts)
              THEN 1
              ELSE 0
    ELSE 0

\* excel_parser.py 482-522: the last cell of a role wins
RoleColumn(row, role) ==
    LET hits == {i \in 1..Len(row) :
                    /\ i - 1 >= StartCol(row)
                    /\ Truthy(row[i])
                    /\ row[i].kind = "text"
                    /\ ColumnRole(row[i].text) = role}
    IN  IF hits = {} THEN NoCol ELSE Max(hits) - 1

\* excel_parser.py 437-530
map_columns(row) ==
    [carrier |-> RoleColumn(row, "carrier"), line |-> RoleColumn(row, "line"),
     ppm |-> RoleColumn(row, "ppm"), premium |-> RoleColumn(row, "premium"),
     fees |-> RoleColumn(row, "fees"), sl_tax |-> RoleColumn(row, "sl_tax"),
     total |-> RoleColumn(row, "total"), data_start_col |-> StartCol(row)]

----------------------------------------------------------------------------
(* Carrier Record Extractor and Sheet Walker *)

\* the amount in a mapped column, 0 when the role is unmapped or out of range
ColumnAmount(row, idx) ==
    IF idx # NoCol /\ idx < Len(row) THEN parse_currency(row[idx + 1]) ELSE 0

RowPremium_NoFallback(row, cmap) ==
    ColumnAmount(row, cmap.premium)

\* excel_parser.py 728-741
RowPremium(row, cmap) ==
    IF ColumnAmount(row, cmap.premium) = 0
    THEN ColumnAmount(row, cmap.total)
    ELSE ColumnAmount(row, cmap.premium)

\* excel_parser.py 659-781: <<>> or the carrier record of a data row
ExtractCarrier(layer, cmap, row) ==
    LET idx == cmap.carrier
    IN  IF ~(idx < Len(row) /\ Truthy(row[idx + 1])) THEN <<>>
        ELSE IF row[idx + 1].kind = "num" THEN <<>>
        ELSE IF \/ row[idx + 1].text \in SkipNameTexts
                \/ row[idx + 1].text \in ShortNameTexts
                \/ row[idx + 1].text \in NumericLookingTexts
        THEN <<>>
        ELSE IF ColumnAmount(row, cmap.line) > 0 \/ RowPremium(row, cmap) > 0
        THEN <<carrier_data(row[idx + 1].text,
                            ShareOf(ColumnAmount(row, cmap.line), layer.limit),
                            RowPremium(row, cmap),
                            ColumnAmount(row, cmap.fees),
                            ColumnAmount(row, cmap.sl_tax))>>
        ELSE <<>>

Flush_Always(layers, current) ==
    IF current # None THEN Append(layers, current[1]) ELSE layers

\* excel_parser.py 607-609: save the previous layer if it has carriers
Flush(layers, current) ==
    IF current # None /\ current[1].carriers # <<>>
    THEN Append(layers, current[1])
    ELSE layers

AfterLayerHeader_KeepsLayer(st, row) ==
    LET hdr == is_layer_header_row(row)
    IN  IF hdr.is_layer
        THEN [st EXCEPT
                !.all_layers = Flush(st.all_layers, st.current_layer),
                !.current_layer =
                    IF hdr.layer_info # None
                    THEN Some(NewLayer(hdr.layer_info[1].limit,
                                       hdr.layer_info[1].attachment,
                                       hdr.layer_info[1].is_primary))
                    ELSE st.current_layer]
        ELSE st

AfterLayerHeader_ResetsColumns(st, row) ==
    LET hdr == is_layer_header_row(row)
    IN  IF hdr.is_layer
        THEN [st EXCEPT
                !.all_layers = Flush(st.all_layers, st.current_layer),
                !.col_map = EmptyColMap,
                !.current_layer =
                    IF hdr.layer_info # None
                    THEN Some(NewLayer(hdr.layer_info[1].limit,
                                       hdr.layer_info[1].attachment,
                                       hdr.layer_info[1].is_primary))
                    ELSE None]
        ELSE st

\* excel_parser.py 601-626: the walker state after the layer header step
AfterLayerHeader(st, row) ==
    LET hdr == is_layer_header_row(row)
    IN  IF hdr.is_layer
        THEN [st EXCEPT
                !.all_layers = Flush(st.all_layers, st.current_layer),
                !.current_layer =
                    IF hdr.layer_info # None
                    THEN Some(NewLayer(hdr.layer_info[1].limit,
                                       hdr.layer_info[1].attachment,
                                       hdr.layer_info[1].is_primary))
                    ELSE None]
        ELSE st

WalkRow_HeaderBeforeTotal(st, row) ==
    IF ~AnyTruthy(row) THEN st
    ELSE IF is_skip_row(row) THEN st
    ELSE LET st1 == AfterLayerHeader(st, row)
         IN  IF is_total_row(row) THEN st1
             ELSE IF is_participant_header_row(row)
             THEN [st1 EXCEPT !.col_map = map_columns(row)]
             ELSE IF st1.current_layer # None /\ st1.col_map.carrier # NoCol
             THEN [st1 EXCEPT !.current_layer[1].carriers =
                       @ \o ExtractCarrier(st1.current_layer[1], st1.col_map, row)]
             ELSE st1

WalkRow_ExclusiveHeaders(st, row) ==
    IF ~AnyTruthy(row) THEN st
    ELSE IF is_skip_row(row) THEN st
    ELSE IF is_total_row(row) THEN st
    ELSE IF is_layer_header_row(row).is_layer THEN AfterLayerHeader(st, row)
    ELSE IF is_participant_header_row(row)
    THEN [st EXCEPT !.col_map = map_columns(row)]
    ELSE IF st.current_layer # None /\ st.col_map.carrier # NoCol
    THEN [st EXCEPT !.current_layer[1].carriers =
              @ \o ExtractCarrier(st.current_layer[1], st.col_map, row)]
    ELSE st

\* excel_parser.py 580-786: one iteration of the row loop on the walker
\* state st = [all_layers, current_layer, col_map]
WalkRow(st, row) ==
    IF ~AnyTruthy(row) THEN st
    ELSE IF is_skip_row(row) THEN st
    ELSE IF is_total_row(row) THEN st
    ELSE LET st1 == AfterLayerHeader(st, row)
         IN  IF is_participant_header_row(row)
             THEN [st1 EXCEPT !.col_map = map_columns(row)]
             ELSE IF st1.current_layer # None /\ st1.col_map.carrier # NoCol
             THEN [st1 EXCEPT !.current_layer[1].carriers =
                       @ \o ExtractCarrier(st1.current_layer[1], st1.col_map, row)]
             ELSE st1

----------------------------------------------------------------------------
(* The blocks under "if DEBUG_PARSING".  A block evaluates f-strings and    *)
(* hands them to logger.debug, which returns nothing and keeps the errors   *)
(* of its handlers to itself.  A line is the sequence of the fields of one   *)
(* f-string, in the order they are evaluated; a field is the Python type of  *)
(* its value, or the exception its expression raises, and its format        *)
(* specification.  "number" is an int or a float.                            *)

\* {value}: str(value)
Plain(type) == [type |-> type, spec |-> ""]

\* {value:,.0f}, {value:.4f}, {value:.2f}: only an int or a float takes them
Fixed(type) == [type |-> type, spec |-> "f"]

\* str(e) of the exception a field raises, None when the field gives its text
FieldError(field) ==
    IF field.type = "IndexError" THEN Some("list index out of range")
    ELSE IF field.spec # "f" \/ field.type \in {"int", "float", "number", "bool"}
    THEN None
    ELSE IF field.type = "str"
    THEN Some("Unknown format code 'f' for object of type 'str'")
    ELSE IF field.type = "NoneType"
    THEN Some("unsupported format string passed to NoneType.__format__")
    ELSE IF field.type = "list"
    THEN Some("unsupported format string passed to list.__format__")
    ELSE Some("unsupported format string passed to dict.__format__")

\* the fields of lines one after the other
RECURSIVE Fields(_)
Fields(lines) ==
    IF lines = <<>> THEN <<>> ELSE Head(lines) \o Fields(Tail(lines))

\* the exception of the first field that raises one
RECURSIVE FirstError(_)
FirstError(fields) ==
    IF fields = <<>> THEN None
    ELSE IF FieldError(Head(fields)) # None THEN FieldError(Head(fields))
    ELSE FirstError(Tail(fields))

\* the exception the blocks raise that evaluate lines while DEBUG_PARSING has
\* the value debug_parsing
Logging(lines, debug_parsing) ==
    IF debug_parsing THEN FirstError(Fields(lines)) ELSE None

\* type(value) of a cell of row_list: an empty cell is None
TypeOfCell(cell) ==
    IF cell.kind = "num" THEN "number"
    ELSE IF cell.text = "" THEN "NoneType"
    ELSE "str"

\* row_list[idx]
Subscript(row, idx) ==
    IF idx < Len(row) THEN TypeOfCell(row[idx + 1]) ELSE "IndexError"

\* excel_parser.py 570-573: the banner of a sheet
SheetLines == <<<<Plain("str")>>, <<Plain("str")>>, <<Plain("str")>>>>

\* excel_parser.py 107-108, 127-130, 151-152, 191-194, 206-207, 212-213: the
\* lines of extract_layer_from_text: the text, then the pattern that matched
ExtractLayerLines(text) ==
    <<<<Plain("str")>>,
      IF ExcessPattern(text) # <<>> THEN <<Plain("float"), Plain("float")>>
      ELSE IF PrimaryPattern(text) # <<>> THEN <<Plain("float")>>
      ELSE IF extract_layer_from_text(text) # None
      THEN <<Plain("float"), Plain("bool")>>
      ELSE <<>>>>

\* excel_parser.py 239-294: the lines of one iteration of the loop over the
\* first 2 cells
CellLines(row, i) ==
    LET cell == row[i]
        text == cell.text
    IN  IF ~(Truthy(cell) /\ cell.kind = "text") THEN <<>>
        ELSE IF text \in CarrierIndicatorTexts THEN <<>>
        ELSE IF extract_layer_from_text(text) # None
        THEN ExtractLayerLines(text) \o <<<<Plain("int"), Plain("dict")>>>>
        ELSE ExtractLayerLines(text)
             \o (IF text \in NoDollarExcessTexts
                 THEN ExtractLayerLines(InsertDollars(text))
                      \o (IF extract_layer_from_text(InsertDollars(text)) # None
                          THEN <<<<Plain("int"), Plain("dict")>>>>
                          ELSE <<>>)
                 ELSE <<>>)
             \o (IF /\ text \in SpecialLayerTexts
                    /\ ~(/\ text \in NoDollarExcessTexts
                         /\ extract_layer_from_text(InsertDollars(text)) # None)
                 THEN <<<<Plain("int"), Plain("str")>>>>
                 ELSE <<>>)

\* excel_parser.py 233-294: the lines of is_layer_header_row
LayerHeaderLines(row) ==
    <<<<Plain("list")>>>>
    \o (IF Len(row) >= 1 THEN CellLines(row, 1) ELSE <<>>)
    \o (IF Len(row) >= 2 /\ LayerHeaderCell(row, 1) = <<>>
        THEN CellLines(row, 2)
        ELSE <<>>)

ReadingBlock_Unguarded(row, cmap) ==
    <<Plain("int"),
      Plain(Subscript(row, cmap.carrier)),
      Plain(IF cmap.line = NoCol THEN "NoneType" ELSE "int"),
      Plain(IF cmap.line # NoCol /\ cmap.line # 0
            THEN Subscript(row, cmap.line)
            ELSE "NoneType")>>

\* excel_parser.py 643-656: carrier_idx, row_list[carrier_idx] if it is in
\* range, line_idx and row_list[line_idx] if line_idx is truthy and in range
ReadingBlock(row, cmap) ==
    <<Plain("int"),
      Plain(IF cmap.carrier < Len(row)
            THEN Subscript(row, cmap.carrier)
            ELSE "NoneType"),
      Plain(IF cmap.line = NoCol THEN "NoneType" ELSE "int"),
      Plain(IF cmap.line # NoCol /\ cmap.line # 0 /\ cmap.line < Len(row)
            THEN Subscript(row, cmap.line)
            ELSE "NoneType")>>

\* excel_parser.py 720-724: the type of an amount of the carrier step: the
\* int 0 it starts as, or the float parse_currency returns for its column
AmountType(row, idx) ==
    IF idx # NoCol /\ idx < Len(row) THEN "float" ELSE "int"

\* excel_parser.py 726-741: the type of premium, which the total column
\* gives when the premium column gave none
PremiumType(row, cmap) ==
    IF AmountType(row, cmap.premium) = "float" THEN "float"
    ELSE AmountType(row, cmap.total)

\* excel_parser.py 759-767: line_amount, layer_limit, share and share*100
ShareCalcBlock(row, cmap) ==
    <<Fixed(AmountType(row, cmap.line)), Fixed("float"), Fixed("float"),
      Fixed("float")>>

\* excel_parser.py 783-786: carrier_name, share, share*100, line_amount and
\* premium
AddedCarrierBlock(row, cmap) ==
    <<Plain("str"), Fixed("float"), Fixed("float"),
      Fixed(AmountType(row, cmap.line)), Fixed(PremiumType(row, cmap))>>

\* excel_parser.py 643-786: the lines of the carrier step
CarrierLines(cmap, row) ==
    LET idx == cmap.carrier
    IN  <<ReadingBlock(row, cmap)>>
        \o (IF ~(idx < Len(row) /\ Truthy(row[idx + 1])) THEN <<>>
            ELSE IF \/ row[idx + 1].kind = "num"
                    \/ row[idx + 1].text \in SkipNameTexts
                    \/ row[idx + 1].text \in ShortNameTexts
                    \/ row[idx + 1].text \in NumericLookingTexts
            THEN <<<<Plain("str")>>>>
            ELSE <<ShareCalcBlock(row, cmap)>>
                 \o (IF \/ ColumnAmount(row, cmap.line) > 0
                        \/ RowPremium(row, cmap) > 0
                     THEN <<AddedCarrierBlock(row, cmap)>>
                     ELSE <<>>))

\* excel_parser.py 586-786: the lines of one iteration of the row loop, with
\* those of the helpers it calls (402-403, 374-375, 527-528)
RowLines(st, row) ==
    IF ~AnyTruthy(row) THEN <<>>
    ELSE <<<<Plain("int"), Plain("list")>>>>
         \o (IF is_skip_row(row) THEN <<<<>>>>
             ELSE IF is_total_row(row)
             THEN <<<<Plain("int"), Plain("str")>>, <<>>>>
             ELSE LET st1 == AfterLayerHeader(st, row)
                  IN  LayerHeaderLines(row)
                      \o (IF is_layer_header_row(row).is_layer
                          THEN <<<<Plain(IF is_layer_header_row(row).layer_info
                                              # None
                                         THEN "dict" ELSE "NoneType")>>>>
                               \o (IF st1.all_layers # st.all_layers
                                   THEN <<<<Plain("int")>>>>
                                   ELSE <<>>)
                          ELSE <<>>)
                      \o (IF is_participant_header_row(row)
                          THEN <<<<Plain("list")>>,
                                 <<Plain("int"), Plain("dict")>>,
                                 <<Plain("dict")>>>>
                          ELSE IF /\ st1.current_layer # None
                                  /\ st1.col_map.carrier # NoCol
                          THEN CarrierLines(st1.col_map, row)
                          ELSE <<>>))

\* excel_parser.py 580-786: one iteration of the row loop while DEBUG_PARSING
\* has the value debug_parsing: an exception of a block leaves the loop
WalkRowLogging(st, row, debug_parsing) ==
    LET raised_by_block == Logging(RowLines(st, row), debug_parsing)
    IN  IF raised_by_block # None
        THEN [st EXCEPT !.error = raised_by_block]
        ELSE WalkRow(st, row)

\* a parse_excel_program call that has not been made
NotCalled ==
    [pc |-> "idle", debug |-> FALSE, original_debug |-> FALSE, traced |-> FALSE]

\* excel_parser.py 570-577: the walker state at the start of the first sheet
WalkerStart ==
    [all_layers |-> <<>>, current_layer |-> None, col_map |-> EmptyColMap,
     error |-> None]

\* excel_parser.py 575-577: current_layer and col_map at the start of a sheet
StartSheet(st) == [st EXCEPT !.current_layer = None, !.col_map = EmptyColMap]

\* excel_parser.py 813-819
IsDuplicate(existing, carrier) ==
    /\ existing.carrier_name = carrier.carrier_name
    /\ FloatLess(FloatAbsDiff(existing.share, carrier.share), Tolerance)

\* excel_parser.py 810-821: one iteration of the carrier loop
AddParsedCarrier(carriers, carrier) ==
    IF \E i \in 1..Len(carriers) : IsDuplicate(carriers[i], carrier)
    THEN carriers
    ELSE Append(carriers, carrier)

RECURSIVE AddParsedCarriers(_, _)
AddParsedCarriers(carriers, incoming) ==
    IF incoming = <<>> THEN carriers
    ELSE AddParsedCarriers(AddParsedCarrier(carriers, Head(incoming)), Tail(incoming))

\* excel_parser.py 798-821: merge of the layers one workbook states twice
RECURSIVE MergeParsedLayers(_, _)
MergeParsedLayers(merged_layers, layers) ==
    IF layers = <<>> THEN merged_layers
    ELSE LET layer == Head(layers)
             d == EnsureBucket(merged_layers, layer.limit, layer.attachment,
                               layer.is_primary)
             k == KeyIndex(d, LayerKey(layer))
         IN  MergeParsedLayers(
                 [d EXCEPT ![k].carriers = AddParsedCarriers(@, layer.carriers)],
                 Tail(layers))

\* excel_parser.py 853-858
ExcelSuccess(layers) == [success |-> TRUE, layers |-> layers, error |-> None]

ExcelFailure_NoMessage(message) ==
    [success |-> FALSE, layers |-> <<>>, error |-> None]

\* excel_parser.py 860-863
ExcelFailure(message) ==
    [success |-> FALSE, layers |-> <<>>, error |-> Some(message)]

FinishParse_KeepsPending(layers, current) ==
    ExcelSuccess(SortByAttachment(
        MergeParsedLayers(<<>>, Flush_Always(layers, current))))

\* excel_parser.py 788-858: from the end of the sheet loop to the return
FinishParse(layers, current) ==
    ExcelSuccess(SortByAttachment(
        MergeParsedLayers(<<>>, Flush(layers, current))))

\* excel_parser.py 833: sum(c.get("share", 0) for c in carriers), the shares
\* added to the int 0 from left to right, each sum rounded to a double
RECURSIVE SumFrom(_, _)
SumFrom(total, carriers) ==
    IF carriers = <<>> THEN total
    ELSE SumFrom(FloatAdd(total, Head(carriers).share), Tail(carriers))

total_share(carriers) == SumFrom(Float(0), carriers)

\* excel_parser.py 848: abs(total_share - 1.0) > 0.01
SharesOffOne(total) == FloatLess(OneHundredth, FloatAbsDiff(total, Float(1)))

\* the type of layer["attachment"]: the int 0 of excel_parser.py 156, 197,
\* 303 and 312, or the float of parse_currency at 125, which is positive
\* for every text of ExcessPattern
AttachmentType(layer) == IF layer.attachment = 0 THEN "int" ELSE "float"

\* excel_parser.py 831-851: the lines of one layer of the summary: limit and
\* attachment, for each carrier its name, share*100 and share * layer_limit,
\* then total_share*100 on the TOTAL line, and once more on the warning of
\* 848-851 when the shares are more than 0.01 off 1.0
LayerSummaryLines(layer) ==
    IF layer.carriers = <<>> THEN <<>>
    ELSE <<<<Fixed("float"), Fixed(AttachmentType(layer))>>>>
         \o [k \in 1..Len(layer.carriers) |->
                 <<Plain("str"), Fixed("float"), Fixed("float")>>]
         \o <<<<Fixed("float")>>>>
         \o (IF SharesOffOne(total_share(layer.carriers))
             THEN <<<<Fixed("float")>>>>
             ELSE <<>>)

RECURSIVE SummaryLines(_)
SummaryLines(layers) ==
    IF layers = <<>> THEN <<>>
    ELSE LayerSummaryLines(Head(layers)) \o SummaryLines(Tail(layers))

\* excel_parser.py 789-851: the lines from the end of the sheet loop to the
\* return
FinishLines(layers, current) ==
    (IF Flush(layers, current) # layers THEN <<<<Plain("int")>>>> ELSE <<>>)
    \o <<<<Plain("str")>>, <<Plain("int")>>>>
    \o SummaryLines(FinishParse(layers, current).layers)

\* excel_parser.py 788-863: from the end of the sheet loop to the return
\* while DEBUG_PARSING has the value debug_parsing: an exception of a block
\* is caught at 860
FinishParseLogging(layers, current, debug_parsing) ==
    LET raised_by_block == Logging(FinishLines(layers, current), debug_parsing)
    IN  IF raised_by_block # None
        THEN ExcelFailure(raised_by_block[1])
        ELSE FinishParse(layers, current)

----------------------------------------------------------------------------
(* extract_limit_patterns.  The regular expressions of pdf_parser.py are     *)
(* tabulated over the document texts of the model.                          *)

\* the document texts of the model
PdfTexts ==
    {"",
     "$50M Primary",
     "$50M xs $50M",
     "$100M xs $50M",
     "Limit: $50M",
     "Limit: $50M Attachment: $50M",
     "$50M xs $50M and Limit: $50M",
     "Limit: $50M and Limit: $100M",
     "Coverage $50M",
     "Acme Re: $2.5M (5%) part of $50M xs $50M",
     "$2.5M (5%) part of $50M xs $50M",
     "Acme Re: $2.5M that being 5% Annual Aggregate; part of $50M xs $50M",
     "$2.5M that being 5% Annual Aggregate; part of $50M xs $50M",
     "Acme Re: $2.5M (5%) part of $50M Primary",
     "Acme Re: $2.5M that being 5% Annual Aggregate; part of $50M Primary",
     "Acme Re: $2.5M (5%) part of $50M xs $50M. Beta Mutual: $5M (10%) part of $50M xs $50M",
     "Acme Re: $5M (10%) part of $50M xs $50M",
     "Gamma Insurance - 50%",
     "$50M xs $50M\nGamma Insurance - 50%",
     "$50M xs $50M\nGamma Insurance - 50%\nAcme Re - 25%",
     "Limit: $50M\nGamma 50%",
     "Policy No: ABC-123\n$50M xs $50M\nGamma Insurance - 50%\nPremium: $100,000"}

\* pdf_parser.py 43-72: parse_currency of a text
PdfParseCurrencyText(value_str) ==
    CASE value_str = "$100M" -> 100000
      [] value_str = "$50M" -> 50000
      [] OTHER -> 0

\* pdf_parser.py 93-96: the matches of excess_pattern, in text order
ExcessMatches(text) ==
    CASE text = "$50M xs $50M" -> <<"$50M xs $50M">>
      [] text = "$100M xs $50M" -> <<"$100M xs $50M">>
      [] text = "$50M xs $50M and Limit: $50M" -> <<"$50M xs $50M">>
      [] text = "Acme Re: $2.5M (5%) part of $50M xs $50M" -> <<"$50M xs $50M">>
      [] text = "$2.5M (5%) part of $50M xs $50M" -> <<"$50M xs $50M">>
      [] text = "Acme Re: $2.5M that being 5% Annual Aggregate; part of $50M xs $50M" -> <<"$50M xs $50M">>
      [] text = "$2.5M that being 5% Annual Aggregate; part of $50M xs $50M" -> <<"$50M xs $50M">>
      [] text = "Acme Re: $2.5M (5%) part of $50M xs $50M. Beta Mutual: $5M (10%) part of $50M xs $50M" -> <<"$50M xs $50M", "$50M xs $50M">>
      [] text = "Acme Re: $5M (10%) part of $50M xs $50M" -> <<"$50M xs $50M">>
      [] text = "$50M xs $50M\nGamma Insurance - 50%" -> <<"$50M xs $50M">>
      [] text = "$50M xs $50M\nGamma Insurance - 50%\nAcme Re - 25%" -> <<"$50M xs $50M">>
      [] text = "Policy No: ABC-123\n$50M xs $50M\nGamma Insurance - 50%\nPremium: $100,000" -> <<"$50M xs $50M">>
      [] OTHER -> <<>>

\* pdf_parser.py 101: the match split on the excess word, parts stripped
SplitExcess(match_text) ==
    CASE match_text = "$100M xs $50M" -> <<"$100M", "$50M">>
      [] match_text = "$50M xs $50M" -> <<"$50M", "$50M">>
      [] OTHER -> <<>>

\* pdf_parser.py 114-115: the matches of primary_pattern
PrimaryMatches(text) ==
    CASE text = "$50M Primary" -> <<"$50M Primary">>
      [] text = "Acme Re: $2.5M (5%) part of $50M Primary" -> <<"$50M Primary">>
      [] text = "Acme Re: $2.5M that being 5% Annual Aggregate; part of $50M Primary" -> <<"$50M Primary">>
      [] OTHER -> <<>>

\* pdf_parser.py 131-152: the matches of limit_pattern: the text after the last colon,
\* and the attachment stated within 100 characters of the match
LimitMatches(text) ==
    CASE text = "Limit: $50M" -> <<[amount |-> "$50M", attachment_match |-> FALSE, attachment |-> ""]>>
      [] text = "Limit: $50M Attachment: $50M" -> <<[amount |-> "$50M", attachment_match |-> TRUE, attachment |-> "$50M"]>>
      [] text = "$50M xs $50M and Limit: $50M" -> <<[amount |-> "$50M", attachment_match |-> FALSE, attachment |-> ""]>>
      [] text = "Limit: $50M and Limit: $100M" -> <<[amount |-> "$50M", attachment_match |-> FALSE, attachment |-> ""], [amount |-> "$100M", attachment_match |-> FALSE, attachment |-> ""]>>
      [] text = "Coverage $50M" -> <<[amount |-> "Coverage $50M", attachment_match |-> FALSE, attachment |-> ""]>>
      [] text = "Limit: $50M\nGamma 50%" -> <<[amount |-> "$50M", attachment_match |-> FALSE, attachment |-> ""]>>
      [] OTHER -> <<>>

\* pdf_parser.py 98-111: one match of the excess pattern
ExcessLimit(match_text) ==
    LET parts == SplitExcess(match_text)
    IN  IF Len(parts) = 2
        THEN <<LayerInfo(PdfParseCurrencyText(parts[1]),
                         PdfParseCurrencyText(parts[2]), FALSE)>>
        ELSE <<>>

\* pdf_parser.py 117-128: one match of the primary pattern; the whole match,
\* the word "primary" included, goes to parse_currency
PrimaryLimit(match_text) ==
    LET limit == PdfParseCurrencyText(match_text)
    IN  IF limit > 0 THEN <<LayerInfo(limit, 0, TRUE)>> ELSE <<>>

StatedLimit_AlwaysPrimary(m) ==
    LET limit == PdfParseCurrencyText(m.amount)
        attachment == IF m.attachment_match
                      THEN PdfParseCurrencyText(m.attachment) ELSE 0
    IN  IF limit > 0
        THEN <<LayerInfo(limit, attachment, TRUE)>>
        ELSE <<>>

\* pdf_parser.py 134-161: one match of the "Limit: $X" pattern
StatedLimit(m) ==
    LET limit == PdfParseCurrencyText(m.amount)
        attachment == IF m.attachment_match
                      THEN PdfParseCurrencyText(m.attachment) ELSE 0
    IN  IF limit > 0
        THEN <<LayerInfo(limit, attachment, attachment = 0)>>
        ELSE <<>>

\* f applied to the elements of s in order, the results concatenated
RECURSIVE FlatMap(_, _)
FlatMap(f(_), s) ==
    IF s = <<>> THEN <<>> ELSE f(Head(s)) \o FlatMap(f, Tail(s))

\* pdf_parser.py 75-163
extract_limit_patterns(text) ==
    FlatMap(ExcessLimit, ExcessMatches(text))
    \o FlatMap(PrimaryLimit, PrimaryMatches(text))
    \o FlatMap(StatedLimit, LimitMatches(text))

----------------------------------------------------------------------------
(* extract_part_of_patterns *)

\* the document texts the part-of extractor is given on its own
PartOfTexts ==
    {"",
     "Limit: $50M",
     "Acme Re: $2.5M (5%) part of $50M xs $50M",
     "$2.5M (5%) part of $50M xs $50M",
     "Acme Re: $2.5M that being 5% Annual Aggregate; part of $50M xs $50M",
     "$2.5M that being 5% Annual Aggregate; part of $50M xs $50M",
     "Acme Re: $2.5M (5%) part of $50M Primary",
     "Acme Re: $2.5M that being 5% Annual Aggregate; part of $50M Primary",
     "Acme Re: $2.5M (5%) part of $50M xs $50M. Beta Mutual: $5M (10%) part of $50M xs $50M"}

\* pdf_parser.py 185-319: the matches of the six patterns, in text order
PartOfMatches(text, pattern) ==
    CASE text = "Acme Re: $2.5M (5%) part of $50M xs $50M" /\ pattern = 2 ->
            <<[name |-> "Acme Re", amount |-> "2.5M", percentage |-> "5", layer |-> "50M",
               attachment |-> "50M",
               match |-> "Acme Re: $2.5M (5%) part of $50M xs $50M"]>>
      [] text = "Acme Re: $2.5M (5%) part of $50M xs $50M" /\ pattern = 4 ->
            <<[name |-> "", amount |-> "2.5M", percentage |-> "5", layer |-> "50M",
               attachment |-> "50M",
               match |-> "$2.5M (5%) part of $50M xs $50M"]>>
      [] text = "$2.5M (5%) part of $50M xs $50M" /\ pattern = 4 ->
            <<[name |-> "", amount |-> "2.5M", percentage |-> "5", layer |-> "50M",
               attachment |-> "50M",
               match |-> "$2.5M (5%) part of $50M xs $50M"]>>
      [] text = "Acme Re: $2.5M that being 5% Annual Aggregate; part of $50M xs $50M" /\ pattern = 1 ->
            <<[name |-> "Acme Re", amount |-> "2.5M", percentage |-> "5", layer |-> "50M",
               attachment |-> "50M",
               match |-> "Acme Re: $2.5M that being 5% Annual Aggregate; part of $50M xs $50M"]>>
      [] text = "Acme Re: $2.5M that being 5% Annual Aggregate; part of $50M xs $50M" /\ pattern = 3 ->
            <<[name |-> "", amount |-> "2.5M", percentage |-> "5", layer |-> "50M",
               attachment |-> "50M",
               match |-> "$2.5M that being 5% Annual Aggregate; part of $50M xs $50M"]>>
      [] text = "$2.5M that being 5% Annual Aggregate; part of $50M xs $50M" /\ pattern = 3 ->
            <<[name |-> "", amount |-> "2.5M", percentage |-> "5", layer |-> "50M",
               attachment |-> "50M",
               match |-> "$2.5M that being 5% Annual Aggregate; part of $50M xs $50M"]>>
      [] text = "Acme Re: $2.5M (5%) part of $50M Primary" /\ pattern = 6 ->
            <<[name |-> "Acme Re", amount |-> "2.5M", percentage |-> "5", layer |-> "50M",
               attachment |-> "",
               match |-> "Acme Re: $2.5M (5%) part of $50M Primary"]>>
      [] text = "Acme Re: $2.5M that being 5% Annual Aggregate; part of $50M Primary" /\ pattern = 5 ->
            <<[name |-> "Acme Re", amount |-> "2.5M", percentage |-> "5", layer |-> "50M",
               attachment |-> "",
               match |-> "Acme Re: $2.5M that being 5% Annual Aggregate; part of $50M Primary"]>>
      [] text = "Acme Re: $2.5M (5%) part of $50M xs $50M. Beta Mutual: $5M (10%) part of $50M xs $50M" /\ pattern = 2 ->
            <<[name |-> "Acme Re", amount |-> "2.5M", percentage |-> "5", layer |-> "50M",
               attachment |-> "50M",
               match |-> "Acme Re: $2.5M (5%) part of $50M xs $50M"],
              [name |-> "Beta Mutual", amount |-> "5M", percentage |-> "10", layer |-> "50M",
               attachment |-> "50M",
               match |-> "Beta Mutual: $5M (10%) part of $50M xs $50M"]>>
      [] text = "Acme Re: $2.5M (5%) part of $50M xs $50M. Beta Mutual: $5M (10%) part of $50M xs $50M" /\ pattern = 4 ->
            <<[name |-> "", amount |-> "2.5M", percentage |-> "5", layer |-> "50M",
               attachment |-> "50M",
               match |-> "$2.5M (5%) part of $50M xs $50M"],
              [name |-> "", amount |-> "5M", percentage |-> "10", layer |-> "50M",
               attachment |-> "50M",
               match |-> "$5M (10%) part of $50M xs $50M"]>>
      [] text = "Acme Re: $5M (10%) part of $50M xs $50M" /\ pattern = 2 ->
            <<[name |-> "Acme Re", amount |-> "5M", percentage |-> "10", layer |-> "50M",
               attachment |-> "50M",
               match |-> "Acme Re: $5M (10%) part of $50M xs $50M"]>>
      [] text = "Acme Re: $5M (10%) part of $50M xs $50M" /\ pattern = 4 ->
            <<[name |-> "", amount |-> "5M", percentage |-> "10", layer |-> "50M",
               attachment |-> "50M",
               match |-> "$5M (10%) part of $50M xs $50M"]>>
      [] OTHER -> <<>>

\* pdf_parser.py 43-72: parse_currency of an amount of a part-of match
PartOfAmount(value_str) ==
    CASE value_str = "2.5M" -> 2500
      [] value_str = "50M" -> 50000
      [] value_str = "5M" -> 5000
      [] OTHER -> 0

\* pdf_parser.py 192, 385: float(percentage), a whole number in the texts of the model
PercentageNumber(percentage) ==
    CASE percentage = "10" -> 10
      [] percentage = "25" -> 25
      [] percentage = "5" -> 5
      [] percentage = "50" -> 50
      [] OTHER -> 0

\* pdf_parser.py 241, 269: the pairs <<a, b>> of match texts with a in b
WithinText ==
    {<<"$2.5M (5%) part of $50M xs $50M",
       "$2.5M (5%) part of $50M xs $50M">>,
     <<"$2.5M (5%) part of $50M xs $50M",
       "Acme Re: $2.5M (5%) part of $50M xs $50M">>,
     <<"$2.5M that being 5% Annual Aggregate; part of $50M xs $50M",
       "$2.5M that being 5% Annual Aggregate; part of $50M xs $50M">>,
     <<"$2.5M that being 5% Annual Aggregate; part of $50M xs $50M",
       "Acme Re: $2.5M that being 5% Annual Aggregate; part of $50M xs $50M">>,
     <<"$5M (10%) part of $50M xs $50M",
       "$5M (10%) part of $50M xs $50M">>,
     <<"$5M (10%) part of $50M xs $50M",
       "Acme Re: $5M (10%) part of $50M xs $50M">>,
     <<"$5M (10%) part of $50M xs $50M",
       "Beta Mutual: $5M (10%) part of $50M xs $50M">>,
     <<"Acme Re: $2.5M (5%) part of $50M Primary",
       "Acme Re: $2.5M (5%) part of $50M Primary">>,
     <<"Acme Re: $2.5M (5%) part of $50M xs $50M",
       "Acme Re: $2.5M (5%) part of $50M xs $50M">>,
     <<"Acme Re: $2.5M that being 5% Annual Aggregate; part of $50M Primary",
       "Acme Re: $2.5M that being 5% Annual Aggregate; part of $50M Primary">>,
     <<"Acme Re: $2.5M that being 5% Annual Aggregate; part of $50M xs $50M",
       "Acme Re: $2.5M that being 5% Annual Aggregate; part of $50M xs $50M">>,
     <<"Acme Re: $5M (10%) part of $50M xs $50M",
       "Acme Re: $5M (10%) part of $50M xs $50M">>,
     <<"Beta Mutual: $5M (10%) part of $50M xs $50M",
       "Beta Mutual: $5M (10%) part of $50M xs $50M">>}

\* pdf_parser.py 192-200, 385: float(percentage) / 100.0
PercentageShare(percentage) == FloatDivide(PercentageNumber(percentage), 100)

\* pdf_parser.py 196-206, 221-231, 301-311, 324-334: the result of a match of
\* a pattern with a carrier name; a match neither starts nor ends with a blank,
\* so raw_text is the match
NamedPartOf(m, is_primary) ==
    [carrier_name |-> m.name, carrier_limit |-> PartOfAmount(m.amount),
     share |-> PercentageShare(m.percentage),
     layer_limit |-> PartOfAmount(m.layer),
     attachment |-> IF is_primary THEN 0 ELSE PartOfAmount(m.attachment),
     is_primary |-> is_primary, raw_text |-> m.match]

\* pdf_parser.py 249-259, 277-287: the result of a match of a pattern without
\* a carrier name
UnknownPartOf(m) ==
    [NamedPartOf(m, FALSE) EXCEPT !.carrier_name = "Unknown Carrier"]

\* pdf_parser.py 189-206, 214-231, 295-311, 318-334
RECURSIVE CollectNamed(_, _, _)
CollectNamed(results, matches, is_primary) ==
    IF matches = <<>> THEN results
    ELSE CollectNamed(Append(results, NamedPartOf(Head(matches), is_primary)),
                      Tail(matches), is_primary)

\* pdf_parser.py 241, 269: any(r["raw_text"] in match.group(0) for r in results)
AlreadyCaptured(results, m) ==
    \E i \in 1..Len(results) : <<results[i].raw_text, m.match>> \in WithinText

\* pdf_parser.py 239-259, 267-287
RECURSIVE CollectCarrierLess(_, _)
CollectCarrierLess(results, matches) ==
    IF matches = <<>> THEN results
    ELSE CollectCarrierLess(
             IF AlreadyCaptured(results, Head(matches)) THEN results
             ELSE Append(results, UnknownPartOf(Head(matches))),
             Tail(matches))

\* pdf_parser.py 166-336
extract_part_of_patterns(text) ==
    LET r1 == CollectNamed(<<>>, PartOfMatches(text, 1), FALSE)
        r2 == CollectNamed(r1, PartOfMatches(text, 2), FALSE)
        r3 == CollectCarrierLess(r2, PartOfMatches(text, 3))
        r4 == CollectCarrierLess(r3, PartOfMatches(text, 4))
        r5 == CollectNamed(r4, PartOfMatches(text, 5), TRUE)
    IN  CollectNamed(r5, PartOfMatches(text, 6), TRUE)

----------------------------------------------------------------------------
(* extract_carrier_info and extract_policy_number *)

\* pdf_parser.py 368: text.split("\n")
TextLines(text) ==
    CASE text = "" -> <<"">>
      [] text = "$50M Primary" -> <<"$50M Primary">>
      [] text = "$50M xs $50M" -> <<"$50M xs $50M">>
      [] text = "$100M xs $50M" -> <<"$100M xs $50M">>
      [] text = "Limit: $50M" -> <<"Limit: $50M">>
      [] text = "Limit: $50M Attachment: $50M" -> <<"Limit: $50M Attachment: $50M">>
      [] text = "$50M xs $50M and Limit: $50M" -> <<"$50M xs $50M and Limit: $50M">>
      [] text = "Limit: $50M and Limit: $100M" -> <<"Limit: $50M and Limit: $100M">>
      [] text = "Coverage $50M" -> <<"Coverage $50M">>
      [] text = "Acme Re: $2.5M (5%) part of $50M xs $50M" -> <<"Acme Re: $2.5M (5%) part of $50M xs $50M">>
      [] text = "$2.5M (5%) part of $50M xs $50M" -> <<"$2.5M (5%) part of $50M xs $50M">>
      [] text = "Acme Re: $2.5M that being 5% Annual Aggregate; part of $50M xs $50M" -> <<"Acme Re: $2.5M that being 5% Annual Aggregate; part of $50M xs $50M">>
      [] text = "$2.5M that being 5% Annual Aggregate; part of $50M xs $50M" -> <<"$2.5M that being 5% Annual Aggregate; part of $50M xs $50M">>
      [] text = "Acme Re: $2.5M (5%) part of $50M Primary" -> <<"Acme Re: $2.5M (5%) part of $50M Primary">>
      [] text = "Acme Re: $2.5M that being 5% Annual Aggregate; part of $50M Primary" -> <<"Acme Re: $2.5M that being 5% Annual Aggregate; part of $50M Primary">>
      [] text = "Acme Re: $2.5M (5%) part of $50M xs $50M. Beta Mutual: $5M (10%) part of $50M xs $50M" -> <<"Acme Re: $2.5M (5%) part of $50M xs $50M. Beta Mutual: $5M (10%) part of $50M xs $50M">>
      [] text = "Acme Re: $5M (10%) part of $50M xs $50M" -> <<"Acme Re: $5M (10%) part of $50M xs $50M">>
      [] text = "Gamma Insurance - 50%" -> <<"Gamma Insurance - 50%">>
      [] text = "$50M xs $50M\nGamma Insurance - 50%" -> <<"$50M xs $50M", "Gamma Insurance - 50%">>
      [] text = "$50M xs $50M\nGamma Insurance - 50%\nAcme Re - 25%" -> <<"$50M xs $50M", "Gamma Insurance - 50%", "Acme Re - 25%">>
      [] text = "Limit: $50M\nGamma 50%" -> <<"Limit: $50M", "Gamma 50%">>
      [] text = "Policy No: ABC-123\n$50M xs $50M\nGamma Insurance - 50%\nPremium: $100,000" -> <<"Policy No: ABC-123", "$50M xs $50M", "Gamma Insurance - 50%", "Premium: $100,000">>
      [] OTHER -> <<>>

\* pdf_parser.py 371: the number before the first percent sign of the line
PercentageMatch(line) ==
    CASE line = "Acme Re: $2.5M (5%) part of $50M xs $50M" -> Some("5")
      [] line = "$2.5M (5%) part of $50M xs $50M" -> Some("5")
      [] line = "Acme Re: $2.5M that being 5% Annual Aggregate; part of $50M xs $50M" -> Some("5")
      [] line = "$2.5M that being 5% Annual Aggregate; part of $50M xs $50M" -> Some("5")
      [] line = "Acme Re: $2.5M (5%) part of $50M Primary" -> Some("5")
      [] line = "Acme Re: $2.5M that being 5% Annual Aggregate; part of $50M Primary" -> Some("5")
      [] line = "Acme Re: $2.5M (5%) part of $50M xs $50M. Beta Mutual: $5M (10%) part of $50M xs $50M" -> Some("5")
      [] line = "Acme Re: $5M (10%) part of $50M xs $50M" -> Some("10")
      [] line = "Gamma Insurance - 50%" -> Some("50")
      [] line = "Acme Re - 25%" -> Some("25")
      [] line = "Gamma 50%" -> Some("50")
      [] OTHER -> None

\* pdf_parser.py 354-364, 375-378: the lines that hold a carrier keyword
KeywordLines ==
    {"Acme Re: $2.5M (5%) part of $50M xs $50M. Beta Mutual: $5M (10%) part of $50M xs $50M",
     "Gamma Insurance - 50%"}

\* pdf_parser.py 380: len(line.split())
WordCount(line) ==
    CASE line = "$50M Primary" -> 2
      [] line = "$50M xs $50M" -> 3
      [] line = "$100M xs $50M" -> 3
      [] line = "Limit: $50M" -> 2
      [] line = "Limit: $50M Attachment: $50M" -> 4
      [] line = "$50M xs $50M and Limit: $50M" -> 6
      [] line = "Limit: $50M and Limit: $100M" -> 5
      [] line = "Coverage $50M" -> 2
      [] line = "Acme Re: $2.5M (5%) part of $50M xs $50M" -> 9
      [] line = "$2.5M (5%) part of $50M xs $50M" -> 7
      [] line = "Acme Re: $2.5M that being 5% Annual Aggregate; part of $50M xs $50M" -> 13
      [] line = "$2.5M that being 5% Annual Aggregate; part of $50M xs $50M" -> 11
      [] line = "Acme Re: $2.5M (5%) part of $50M Primary" -> 8
      [] line = "Acme Re: $2.5M that being 5% Annual Aggregate; part of $50M Primary" -> 12
      [] line = "Acme Re: $2.5M (5%) part of $50M xs $50M. Beta Mutual: $5M (10%) part of $50M xs $50M" -> 18
      [] line = "Acme Re: $5M (10%) part of $50M xs $50M" -> 9
      [] line = "Gamma Insurance - 50%" -> 4
      [] line = "Acme Re - 25%" -> 4
      [] line = "Gamma 50%" -> 2
      [] line = "Policy No: ABC-123" -> 3
      [] line = "Premium: $100,000" -> 2
      [] OTHER -> 0

\* pdf_parser.py 382-384: the text before the percentage, stripped
CarrierNameMatch(line) ==
    CASE line = "Acme Re: $2.5M (5%) part of $50M xs $50M" -> Some("Acme Re: $2.5M (")
      [] line = "$2.5M (5%) part of $50M xs $50M" -> Some("$2.5M (")
      [] line = "Acme Re: $2.5M that being 5% Annual Aggregate; part of $50M xs $50M" -> Some("Acme Re: $2.5M that being")
      [] line = "$2.5M that being 5% Annual Aggregate; part of $50M xs $50M" -> Some("$2.5M that being")
      [] line = "Acme Re: $2.5M (5%) part of $50M Primary" -> Some("Acme Re: $2.5M (")
      [] line = "Acme Re: $2.5M that being 5% Annual Aggregate; part of $50M Primary" -> Some("Acme Re: $2.5M that being")
      [] line = "Acme Re: $2.5M (5%) part of $50M xs $50M. Beta Mutual: $5M (10%) part of $50M xs $50M" -> Some("Acme Re: $2.5M (")
      [] line = "Acme Re: $5M (10%) part of $50M xs $50M" -> Some("Acme Re: $5M (")
      [] line = "Gamma Insurance - 50%" -> Some("Gamma Insurance")
      [] line = "Acme Re - 25%" -> Some("Acme Re")
      [] line = "Gamma 50%" -> Some("Gamma")
      [] OTHER -> None

\* pdf_parser.py 391-395: the premium stated on the line
PremiumMatch(line) ==
    CASE line = "Premium: $100,000" -> Some("Premium: $100,000")
      [] OTHER -> None

\* pdf_parser.py 423-432: group 1 of the first match of a policy number pattern
PolicyNumberMatch(text, pattern) ==
    CASE text = "Policy No: ABC-123\n$50M xs $50M\nGamma Insurance - 50%\nPremium: $100,000" /\ pattern = 1 -> Some("ABC-123")
      [] OTHER -> None

\* pdf_parser.py 375-378: any(keyword in line_lower for keyword in carrier_keywords)
HasCarrierKeyword(line) == line \in KeywordLines

\* pdf_parser.py 388-398: the premium of the first context line that states
\* one; the whole match, the word "premium" included, goes to parse_currency
RECURSIVE ContextPremium(_)
ContextPremium(context_lines) ==
    IF context_lines = <<>> THEN 0
    ELSE IF PremiumMatch(Head(context_lines)) # None
         THEN PdfParseCurrencyText(PremiumMatch(Head(context_lines))[1])
         ELSE ContextPremium(Tail(context_lines))

\* pdf_parser.py 389: lines[max(0, i - 2) : min(len(lines), i + 3)], i counted
\* from 1
ContextLines(lines, i) ==
    SubSeq(lines, IF i > 2 THEN i - 2 ELSE 1,
                  IF i + 2 < Len(lines) THEN i + 2 ELSE Len(lines))

\* pdf_parser.py 369-407: one iteration of the line loop; a line of the model
\* neither starts nor ends with a blank, so raw_text is the line
CarrierOfLine(lines, i) ==
    IF PercentageMatch(lines[i]) = None THEN <<>>
    ELSE IF ~(HasCarrierKeyword(lines[i]) \/ WordCount(lines[i]) > 2) THEN <<>>
    ELSE IF CarrierNameMatch(lines[i]) = None THEN <<>>
    ELSE <<[carrier_name |-> CarrierNameMatch(lines[i])[1],
            share |-> PercentageShare(PercentageMatch(lines[i])[1]),
            premium |-> ContextPremium(ContextLines(lines, i)),
            raw_text |-> lines[i]]>>

RECURSIVE CarriersFrom(_, _)
CarriersFrom(lines, i) ==
    IF i > Len(lines) THEN <<>>
    ELSE CarrierOfLine(lines, i) \o CarriersFrom(lines, i + 1)

\* pdf_parser.py 340-409
extract_carrier_info(text) == CarriersFrom(TextLines(text), 1)

\* pdf_parser.py 412-434: None, or Some(the policy number)
extract_policy_number(text) ==
    IF PolicyNumberMatch(text, 1) # None THEN PolicyNumberMatch(text, 1)
    ELSE IF PolicyNumberMatch(text, 2) # None THEN PolicyNumberMatch(text, 2)
    ELSE PolicyNumberMatch(text, 3)

----------------------------------------------------------------------------
(* parse_insurance_pdf.  A PDF file is modelled by what extract_text_from_pdf *)
(* does with it: it fails, or it returns the text of the pages.               *)

\* pdf_parser.py 450-487
PdfSuccess(text) ==
    [success |-> TRUE, error |-> None,
     policy_number |-> extract_policy_number(text),
     limits |-> extract_limit_patterns(text),
     carriers |-> extract_carrier_info(text),
     part_of_data |-> extract_part_of_patterns(text)]

\* pdf_parser.py 489-496
PdfFailure(message) ==
    [success |-> FALSE, error |-> Some(message),
     limits |-> <<>>, carriers |-> <<>>]

\* pdf_parser.py 437-496
parse_insurance_pdf(pdf) ==
    IF ~pdf.readable
    THEN PdfFailure("Error extracting PDF text")
    ELSE PdfSuccess(pdf.text)

----------------------------------------------------------------------------
(* The arguments of the merges after the call *)

\* a list of parse results cut before carrier k of layer j of document i
DocsBefore(docs, i, j, k) ==
    Append(SubSeq(docs, 1, i - 1),
           [docs[i] EXCEPT
               !.layers =
                   Append(SubSeq(docs[i].layers, 1, j - 1),
                          [docs[i].layers[j] EXCEPT
                              !.carriers = SubSeq(@, 1, k - 1)])])

\* the carriers of the bucket of key in the insertion-ordered dict
BucketCarriers(layer_dict, key) ==
    IF KeyIndex(layer_dict, key) = 0 THEN <<>>
    ELSE layer_dict[KeyIndex(layer_dict, key)].carriers

\* excel_parser.py 901-918: the entry of the merged bucket that carrier k of
\* layer j of document i was appended as, 0 when it was summed into another
AppendedAs(docs, i, j, k) ==
    LET bucket == BucketCarriers(MergeExcelDocs(<<>>, DocsBefore(docs, i, j, k)),
                                 LayerKey(docs[i].layers[j]))
    IN  IF FirstDuplicate(bucket, docs[i].layers[j].carriers[k]) = 0
        THEN Len(bucket) + 1
        ELSE 0

\* the entries of the buckets of layer_dict
Entries(layer_dict) ==
    UNION {Range(layer_dict[b].carriers) : b \in 1..Len(layer_dict)}

\* the items a dict of the argument holds when the call has returned: a dict
\* that is an entry of a bucket has taken every sum assigned to that entry
ItemsAfter(object, entries) ==
    LET same == {e \in entries : "id" \in DOMAIN e /\ e.id = object.id}
    IN  IF same = {} THEN Items(object) ELSE Items(CHOOSE e \in same : TRUE)

\* excel_parser.py 884-901: the argument of merge_excel_programs; the loops
\* bind carrier to every dict of every layer["carriers"] in turn
ExcelObjects(docs) ==
    [i \in 1..Len(docs) |->
        [docs[i] EXCEPT
            !.layers =
                [j \in 1..Len(docs[i].layers) |->
                    [docs[i].layers[j] EXCEPT
                        !.carriers =
                            [k \in 1..Len(docs[i].layers[j].carriers) |->
                                Object(docs[i].layers[j].carriers[k],
                                       [doc |-> i, layer |-> j,
                                        carrier |-> k])]]]]]

\* excel_parser.py 882-918: the argument of merge_excel_programs after the
\* call that left layer_dict.  The call assigns to layer_dict (892), to the
\* entries of its buckets (910-912) and to the lists of its buckets (918);
\* the buckets and their lists are built at 892-897
ExcelInputsAfterMerge(objects, layer_dict) ==
    [i \in 1..Len(objects) |->
        [objects[i] EXCEPT
            !.layers =
                [j \in 1..Len(objects[i].layers) |->
                    [objects[i].layers[j] EXCEPT
                        !.carriers =
                            [k \in 1..Len(objects[i].layers[j].carriers) |->
                                ItemsAfter(objects[i].layers[j].carriers[k],
                                           Entries(layer_dict))]]]]]

\* pdf_parser.py 512-574: the argument of merge_parsed_documents; the loops
\* bind part_of and carrier to every dict of doc["part_of_data"] and
\* doc["carriers"] in turn
PdfObjects(docs) ==
    [i \in 1..Len(docs) |->
        IF ~docs[i].success THEN docs[i]
        ELSE [docs[i] EXCEPT
                 !.part_of_data =
                     [k \in 1..Len(docs[i].part_of_data) |->
                         Object(docs[i].part_of_data[k],
                                [doc |-> i, list |-> "part_of_data",
                                 index |-> k])],
                 !.carriers =
                     [k \in 1..Len(docs[i].carriers) |->
                         Object(docs[i].carriers[k],
                                [doc |-> i, list |-> "carriers",
                                 index |-> k])]]]

\* pdf_parser.py 510-596: the argument of merge_parsed_documents after the
\* call that left layer_dict.  The call assigns to layer_dict (523, 562), to
\* the entries of its buckets (539, 582) and to the lists of its buckets
\* (542, 585); the buckets and their lists are built at 523-528 and 562-567
PdfInputsAfterMerge(objects, layer_dict) ==
    [i \in 1..Len(objects) |->
        IF ~objects[i].success THEN objects[i]
        ELSE [objects[i] EXCEPT
                 !.part_of_data =
                     [k \in 1..Len(objects[i].part_of_data) |->
                         ItemsAfter(objects[i].part_of_data[k],
                                    Entries(layer_dict))],
                 !.carriers =
                     [k \in 1..Len(objects[i].carriers) |->
                         ItemsAfter(objects[i].carriers[k],
                                    Entries(layer_dict))]]]

\* the value of the dict a merge returns: the items of its entries
ValueOf(merged) ==
    [merged EXCEPT
        !.layers =
            [l \in 1..Len(merged.layers) |->
                [merged.layers[l] EXCEPT
                    !.carriers =
                        [k \in 1..Len(merged.layers[l].carriers) |->
                            Items(merged.layers[l].carriers[k])]]]]

----------------------------------------------------------------------------
(* Inputs *)

\* rows of a broker schedule: layer labels in column A, carriers from column B
ColumnHeaderRow ==
    <<T(""), T("Participant"), T("Line"), T("Premium"), T("Fees"), T("SL Tax")>>

LayerHeaderRows ==
    {<<T("$50M Primary")>>, <<T("$50M xs $50M")>>, <<T("$100M Primary")>>,
     <<T("ALL RISKS EX ZURICH LEAD")>>}

DataRow(name, line, premium, fees, sl_tax) ==
    <<T(""), T(name), N(line), N(premium), N(fees), N(sl_tax)>>

\* three lines of one carrier 0.00008 of a 50M layer apart, and another carrier
DataRows ==
    {DataRow("Acme Re", 25000, 100, 10, 1),
     DataRow("Acme Re", 25004, 200, 20, 2),
     DataRow("Acme Re", 25008, 400, 40, 4),
     DataRow("Beta Mutual", 25000, 800, 80, 8)}

\* a line 5,000 dollars above 25M: 0.5001 of a 50M layer and 0.0001 above 0.5
\* on paper, less than 0.0001 above it as floats
BoundaryRow == DataRow("Acme Re", 25005, 200, 20, 2)

OtherRows ==
    {<<T("------")>>, <<T(""), T("TOTAL"), N(100000), N(1500)>>, <<T(""), T("")>>}

\* a header row whose last column is the total instead of the surplus lines tax
TotalColumnHeaderRow ==
    <<T(""), T("Participant"), T("Line"), T("Premium"), T("Fees"), T("Total")>>

\* rows with no line and no premium but a total, with none of them, and
\* with a line and a total but no premium
AmountlessRows ==
    {DataRow("Acme Re", 0, 0, 10, 1), DataRow("Acme Re", 0, 0, 10, 0),
     DataRow("Beta Mutual", 25000, 0, 10, 300)}

\* a divider row that also holds a total keyword
DividerTotalRow == <<T("------"), T("TOTAL"), N(100000)>>

\* layer labels more than one rule of the cascade matches, a label with a
\* carrier on its row, and a named layer with and without a limit beside it
MoreLayerHeaderRows ==
    {<<T("$50M xs $50M Primary")>>, <<T("$50M Terrorism")>>,
     <<T("$50M xs $50M"), T("Acme Re"), N(25000), N(100), N(10), N(1)>>,
     <<T("ALL RISKS EX ZURICH LEAD"), T(""), N(100000)>>,
     <<T("ALL RISKS EX ZURICH LEAD"), T(""), N(500)>>}

\* rows two steps of the row loop claim: a total row that holds a layer
\* label, a divider row that holds a carrier, and column headers with a total
\* among the first four cells
ShadowedRows ==
    {<<T("$50M Primary"), T("TOTAL")>>,
     <<T("------"), T("Acme Re"), N(25000), N(100)>>,
     <<T("Participant"), T("Line"), T("Premium"), T("Total")>>}

\* a layer label with column headers on its row
LabelledHeaderRow ==
    <<T("$50M xs $50M"), T("Participant"), T("Line"), T("Premium")>>

\* rows with two header keyword cells and with one
FewKeywordRows ==
    {<<T(""), T("Participant"), T("Line")>>, <<T(""), T("Participant")>>}

\* the kinds of workbook a parse is given, and the rows of each kind
WorkbookKinds == {"schedule", "layout", "headers"}

SchedulePool == {ColumnHeaderRow} \cup LayerHeaderRows \cup DataRows \cup OtherRows

LayoutPool ==
    {ColumnHeaderRow, TotalColumnHeaderRow, DividerTotalRow, <<T("$100M Primary")>>,
     DataRow("Acme Re", 25000, 100, 10, 1), <<T(""), T("TOTAL"), N(100000), N(1500)>>}
    \cup MoreLayerHeaderRows \cup AmountlessRows \cup ShadowedRows

HeadersPool ==
    {ColumnHeaderRow, LabelledHeaderRow, <<T("$100M Primary")>>,
     <<T("$50M xs $50M")>>,
     DataRow("Acme Re", 25000, 100, 10, 1), DataRow("Beta Mutual", 25000, 800, 80, 8),
     BoundaryRow}
    \cup FewKeywordRows

WorkbookRows(kind) ==
    CASE kind = "schedule" -> SchedulePool
      [] kind = "layout" -> LayoutPool
      [] kind = "headers" -> HeadersPool
      [] OTHER -> {}

RowPool == SchedulePool \cup LayoutPool \cup HeadersPool

\* the layers the layer header rows of the pool state
LayerHeads ==
    {extract_layer_from_text(row[1].text)[1] :
        row \in {r \in LayerHeaderRows : extract_layer_from_text(r[1].text) # None}}

\* the carrier record a data row of the pool gives under a layer
CarrierOfRow(row, limit) ==
    ExtractCarrier(NewLayer(limit, 0, FALSE), map_columns(ColumnHeaderRow), row)[1]

\* the data rows of the pool a layer is stated with: the near-equal lines
\* come under the 50M primary layer only, the boundary line under the 50M
\* excess layer only
RowsUnder(h) ==
    IF h.limit = 50000 /\ h.attachment = 0 THEN DataRows
    ELSE IF h.limit = 50000
    THEN {r \in DataRows : r[3].num = 25000} \cup {BoundaryRow}
    ELSE {r \in DataRows : r[3].num = 25000}

PairwiseDistinct(carriers) ==
    \A i, j \in 1..Len(carriers) : i < j => ~IsDuplicate(carriers[i], carriers[j])

\* layers as parse_excel_program returns them: at least one carrier, no two
\* carriers duplicates of one another
ParsedLayers ==
    UNION {{[limit |-> h.limit, attachment |-> h.attachment,
             is_primary |-> h.is_primary, carriers |-> cs] :
               cs \in {c \in SeqsUpTo({CarrierOfRow(r, h.limit) : r \in RowsUnder(h)},
                                      MaxCarriers) :
                          c # <<>> /\ PairwiseDistinct(c)}} :
           h \in LayerHeads}

IsSortedByAttachment(layers) ==
    \A i \in 1..(Len(layers) - 1) : layers[i].attachment <= layers[i + 1].attachment

DistinctKeys(layers) ==
    \A i, j \in 1..Len(layers) : i < j => LayerKey(layers[i]) # LayerKey(layers[j])

\* parse results as parse_excel_program returns them
ExcelParseResults ==
    {ExcelFailure("File is not a zip file")}
    \cup {ExcelSuccess(ls) :
             ls \in {l \in SeqsUpTo(ParsedLayers, MaxLayers) :
                        IsSortedByAttachment(l) /\ DistinctKeys(l)}}

RECURSIVE CarrierCount(_)
CarrierCount(layers) ==
    IF layers = <<>> THEN 0
    ELSE Len(Head(layers).carriers) + CarrierCount(Tail(layers))

RECURSIVE ExcelEntries(_)
ExcelEntries(docs) ==
    IF docs = <<>> THEN 0
    ELSE CarrierCount(Head(docs).layers) + ExcelEntries(Tail(docs))

\* pdf_parser.py 18-40: a file extract_text_from_pdf fails on, and the files
\* it reads, each with the text of its pages
PdfFiles ==
    {[readable |-> FALSE, text |-> ""]}
    \cup [readable : {TRUE}, text : PdfTexts]

----------------------------------------------------------------------------
(* The state machine *)

Init ==
    /\ call = "none"
    /\ excel_data_list = <<>>
    /\ excel_merged = <<>>
    /\ parsed_docs = <<>>
    /\ pdf_merged = <<>>
    /\ pdf_file = <<>>
    /\ pdf_result = <<>>
    /\ layer_text = <<>>
    /\ layer_found = <<>>
    /\ part_of_text = <<>>
    /\ part_of_found = <<>>
    /\ DEBUG_PARSING = FALSE
    /\ debug = FALSE
    /\ original_debug = FALSE
    /\ pc = "idle"
    /\ workbook = "none"
    /\ sheet = 0
    /\ rows_read = 0
    /\ all_layers = <<>>
    /\ current_layer = None
    /\ col_map = EmptyColMap
    /\ excel_result = <<>>
    /\ pending_at_sheet_end = <<>>
    /\ last_header = None
    /\ raised = FALSE
    /\ traced = FALSE
    /\ reference = WalkerStart
    /\ calls = [i \in 1..2 |-> NotCalled]

\* app.py 561-569: a parse result joins the list the merge will be given
AppendExcelResult(d) ==
    /\ call \in {"none", "merge_excel_programs"}
    /\ excel_merged = <<>>
    /\ Len(excel_data_list) < MaxDocs
    /\ ExcelEntries(excel_data_list) + CarrierCount(d.layers) <= MaxEntries
    /\ call' = "merge_excel_programs"
    /\ excel_data_list' = Append(excel_data_list, d)
    /\ UNCHANGED <<recognizer_vars, excel_merged, parsed_docs, pdf_merged,
                   pdf_vars, walker_vars, calls>>

\* app.py 762: merged_data = merge_excel_programs(parsed_excel)
MergeExcel ==
    /\ call \in {"none", "merge_excel_programs"}
    /\ excel_merged = <<>>
    /\ call' = "merge_excel_programs"
    /\ LET objects == ExcelObjects(excel_data_list)
       IN  /\ excel_merged' = <<ValueOf(merge_excel_programs(objects))>>
           /\ excel_data_list' =
                  ExcelInputsAfterMerge(objects, MergeExcelDocs(<<>>, objects))
    /\ UNCHANGED <<recognizer_vars, parsed_docs, pdf_merged,
                   pdf_vars, walker_vars, calls>>

\* app.py 345-351: a parse result joins the list the merge will be given
AppendPdfResult(f) ==
    /\ call \in {"none", "merge_parsed_documents"}
    /\ pdf_merged = <<>>
    /\ Len(parsed_docs) < MaxDocs
    /\ call' = "merge_parsed_documents"
    /\ parsed_docs' = Append(parsed_docs, parse_insurance_pdf(f))
    /\ UNCHANGED <<recognizer_vars, excel_data_list, excel_merged, pdf_merged,
                   pdf_vars, walker_vars, calls>>

\* app.py 460: merged_data = merge_parsed_documents(parsed_docs)
MergePdf ==
    /\ call \in {"none", "merge_parsed_documents"}
    /\ pdf_merged = <<>>
    /\ call' = "merge_parsed_documents"
    /\ LET objects == PdfObjects(parsed_docs)
       IN  /\ pdf_merged' = <<ValueOf(merge_parsed_documents(objects))>>
           /\ parsed_docs' =
                  PdfInputsAfterMerge(objects, MergePdfDocs(<<>>, objects))
    /\ UNCHANGED <<recognizer_vars, excel_data_list, excel_merged,
                   pdf_vars, walker_vars, calls>>

\* pdf_parser.py 437-496
ParsePdf(f) ==
    /\ call = "none"
    /\ call' = "parse_insurance_pdf"
    /\ pdf_file' = <<f>>
    /\ pdf_result' = <<parse_insurance_pdf(f)>>
    /\ UNCHANGED <<merge_vars, recognizer_vars, walker_vars, calls>>

\* excel_parser.py 84-215: a call of extract_layer_from_text
RecognizeLayer(text) ==
    /\ call = "none"
    /\ call' = "extract_layer_from_text"
    /\ layer_text' = <<text>>
    /\ layer_found' = <<extract_layer_from_text(text)>>
    /\ UNCHANGED <<part_of_text, part_of_found, merge_vars, pdf_vars,
                   walker_vars, calls>>

\* pdf_parser.py 166-336: a call of extract_part_of_patterns
ExtractPartOf(text) ==
    /\ call = "none"
    /\ call' = "extract_part_of_patterns"
    /\ part_of_text' = <<text>>
    /\ part_of_found' = <<extract_part_of_patterns(text)>>
    /\ UNCHANGED <<layer_text, layer_found, merge_vars, pdf_vars, walker_vars,
                   calls>>

\* excel_parser.py 554-558: entry of parse_excel_program
CallParseExcel(dbg) ==
    /\ call = "none"
    /\ pc = "idle"
    /\ call' = "parse_excel_program"
    /\ debug' = dbg
    /\ original_debug' = DEBUG_PARSING
    /\ DEBUG_PARSING' = (dbg \/ DEBUG_PARSING)
    /\ pc' = "load"
    /\ UNCHANGED <<merge_vars, recognizer_vars, pdf_vars, calls, workbook,
                   sheet, rows_read, all_layers, current_layer, col_map,
                   excel_result, pending_at_sheet_end, last_header, raised,
                   traced, reference>>

\* excel_parser.py 562-577: the workbook opens and the first sheet starts
LoadWorkbook(kind) ==
    /\ pc = "load"
    /\ pc' = "rows"
    /\ workbook' = kind
    /\ all_layers' = WalkerStart.all_layers
    /\ sheet' = 1
    /\ current_layer' = WalkerStart.current_layer
    /\ col_map' = WalkerStart.col_map
    /\ traced' = (traced \/ (DEBUG_PARSING /\ SheetLines # <<>>))
    /\ reference' = WalkerStart
    /\ last_header' = None
    /\ UNCHANGED <<call, merge_vars, recognizer_vars, pdf_vars, calls,
                   DEBUG_PARSING, debug, original_debug, rows_read,
                   excel_result, pending_at_sheet_end, raised>>

\* excel_parser.py 581-617: the limit and attachment of the last layer header
\* of the sheet that stated its layer, once the row has been read: a row that
\* step 1 or step 2 skips never reaches the layer header check of step 3
HeaderAfter(last, row) ==
    IF ~AnyTruthy(row) \/ is_skip_row(row) \/ is_total_row(row) THEN last
    ELSE LET header == is_layer_header_row(row)
         IN  IF header.is_layer /\ header.layer_info # None
             THEN Some(<<header.layer_info[1].limit,
                         header.layer_info[1].attachment>>)
             ELSE last

\* excel_parser.py 580-786: one row of the current sheet
ReadRow(row) ==
    /\ pc = "rows"
    /\ rows_read < MaxRows
    /\ row \in WorkbookRows(workbook)
    /\ LET before == [all_layers |-> all_layers,
                       current_layer |-> current_layer,
                       col_map |-> col_map, error |-> None]
       IN  \E st \in {WalkRowLogging(before, row, DEBUG_PARSING)} :
           /\ all_layers' = st.all_layers
           /\ current_layer' = st.current_layer
           /\ col_map' = st.col_map
           /\ raised' = (st.error # None)
           /\ pc' = IF st.error # None THEN "done" ELSE "rows"
           /\ excel_result' = IF st.error # None
                              THEN <<ExcelFailure(st.error[1])>>
                              ELSE excel_result
           /\ DEBUG_PARSING' = IF st.error # None
                               THEN original_debug
                               ELSE DEBUG_PARSING
           /\ traced' = (traced \/ (DEBUG_PARSING
                                     /\ RowLines(before, row) # <<>>))
    /\ rows_read' = rows_read + 1
    /\ reference' = WalkRowLogging(reference, row, FALSE)
    /\ last_header' = HeaderAfter(last_header, row)
    /\ UNCHANGED <<call, merge_vars, recognizer_vars, pdf_vars, calls,
                   debug, original_debug, workbook, sheet,
                   pending_at_sheet_end>>

Pending(current) ==
    IF current # None /\ current[1].carriers # <<>> THEN <<current[1]>> ELSE <<>>

NextSheet_KeepsLayer ==
    /\ pc = "rows"
    /\ sheet < MaxSheets
    /\ sheet' = sheet + 1
    /\ current_layer' = current_layer
    /\ col_map' = col_map
    /\ pending_at_sheet_end' = pending_at_sheet_end \o Pending(current_layer)
    /\ traced' = (traced \/ (DEBUG_PARSING /\ SheetLines # <<>>))
    /\ reference' = reference
    /\ last_header' = None
    /\ UNCHANGED <<call, merge_vars, recognizer_vars, pdf_vars, calls,
                   DEBUG_PARSING, debug, original_debug, pc, workbook,
                   rows_read, all_layers, excel_result, raised>>

\* excel_parser.py 567-577: the rows of a sheet end and the next sheet starts
NextSheet ==
    /\ pc = "rows"
    /\ sheet < MaxSheets
    /\ sheet' = sheet + 1
    /\ current_layer' = None
    /\ col_map' = EmptyColMap
    /\ pending_at_sheet_end' = pending_at_sheet_end \o Pending(current_layer)
    /\ traced' = (traced \/ (DEBUG_PARSING /\ SheetLines # <<>>))
    /\ reference' = StartSheet(reference)
    /\ last_header' = None
    /\ UNCHANGED <<call, merge_vars, recognizer_vars, pdf_vars, calls,
                   DEBUG_PARSING, debug, original_debug, pc, workbook,
                   rows_read, all_layers, excel_result, raised>>

\* excel_parser.py 788-866: the last sheet ends and the parse returns
ReturnParse ==
    /\ pc = "rows"
    /\ pc' = "done"
    /\ excel_result' =
           <<FinishParseLogging(all_layers, current_layer, DEBUG_PARSING)>>
    /\ raised' = ~excel_result'[1].success
    /\ pending_at_sheet_end' = pending_at_sheet_end \o Pending(current_layer)
    /\ traced' = (traced \/ (DEBUG_PARSING
                              /\ FinishLines(all_layers, current_layer) # <<>>))
    /\ DEBUG_PARSING' = original_debug
    /\ UNCHANGED <<call, merge_vars, recognizer_vars, pdf_vars, calls, debug,
                   original_debug, workbook, sheet, rows_read, all_layers,
                   current_layer, col_map, last_header, reference>>

\* excel_parser.py 562-568, 860-866: load_workbook or the reading of a
\* sheet raises, whatever the value of DEBUG_PARSING; 861-862 log the
\* exception
RaiseInParse ==
    /\ pc \in {"load", "rows"}
    /\ pc' = "done"
    /\ excel_result' = <<ExcelFailure("File is not a zip file")>>
    /\ traced' = (traced \/ DEBUG_PARSING)
    /\ DEBUG_PARSING' = original_debug
    /\ raised' = TRUE
    /\ reference' = [reference EXCEPT !.error = Some("File is not a zip file")]
    /\ UNCHANGED <<call, merge_vars, recognizer_vars, pdf_vars, calls, debug,
                   original_debug, workbook, sheet, rows_read, all_layers,
                   current_layer, col_map, pending_at_sheet_end, last_header>>

\* excel_parser.py 554-558: one of two concurrent calls enters
ConcurrentCall(i, dbg) ==
    /\ call \in {"none", "concurrent_parses"}
    /\ calls[i].pc = "idle"
    /\ call' = "concurrent_parses"
    /\ calls' = [calls EXCEPT ![i] = [pc |-> "running", debug |-> dbg,
                                      original_debug |-> DEBUG_PARSING,
                                      traced |-> FALSE]]
    /\ DEBUG_PARSING' = (dbg \/ DEBUG_PARSING)
    /\ UNCHANGED <<merge_vars, recognizer_vars, pdf_vars, walker_locals>>

\* excel_parser.py 586-587: a row iteration of it logs when DEBUG_PARSING is set
ConcurrentRow(i) ==
    /\ call = "concurrent_parses"
    /\ calls[i].pc = "running"
    /\ calls' = [calls EXCEPT ![i].traced = (@ \/ DEBUG_PARSING)]
    /\ UNCHANGED <<call, merge_vars, recognizer_vars, pdf_vars, walker_vars>>

\* excel_parser.py 865-866: it returns through the finally block
ConcurrentReturn(i) ==
    /\ call = "concurrent_parses"
    /\ calls[i].pc = "running"
    /\ calls' = [calls EXCEPT ![i].pc = "returned"]
    /\ DEBUG_PARSING' = calls[i].original_debug
    /\ UNCHANGED <<call, merge_vars, recognizer_vars, pdf_vars, walker_locals>>

Next ==
    \/ \E d \in ExcelParseResults : AppendExcelResult(d)
    \/ MergeExcel
    \/ \E f \in PdfFiles : AppendPdfResult(f)
    \/ MergePdf
    \/ \E f \in PdfFiles : ParsePdf(f)
    \/ \E text \in Texts : RecognizeLayer(text)
    \/ \E text \in PartOfTexts : ExtractPartOf(text)
    \/ \E dbg \in BOOLEAN : CallParseExcel(dbg)
    \/ \E kind \in WorkbookKinds : LoadWorkbook(kind)
    \/ \E row \in RowPool : ReadRow(row)
    \/ NextSheet
    \/ ReturnParse
    \/ RaiseInParse
    \/ \E i \in 1..2, dbg \in BOOLEAN : ConcurrentCall(i, dbg)
    \/ \E i \in 1..2 : ConcurrentRow(i)
    \/ \E i \in 1..2 : ConcurrentReturn(i)

Spec == Init /\ [][Next]_vars

----------------------------------------------------------------------------
(* Type invariant *)

TypeOK ==
    /\ call \in {"none", "merge_excel_programs", "merge_parsed_documents",
                 "parse_insurance_pdf", "extract_layer_from_text",
                 "extract_part_of_patterns",
                 "parse_excel_program", "concurrent_parses"}
    /\ Len(layer_text) <= 1 /\ Len(layer_found) <= 1
    /\ Len(part_of_text) <= 1 /\ Len(part_of_found) <= 1
    /\ traced \in BOOLEAN
    /\ \A i \in 1..2 : calls[i].pc \in {"idle", "running", "returned"}
    /\ pc \in {"idle", "load", "rows", "done"}
    /\ workbook \in {"none"} \cup WorkbookKinds
    /\ Len(excel_merged) <= 1 /\ Len(pdf_merged) <= 1
    /\ Len(excel_result) <= 1 /\ Len(pdf_result) <= 1
    /\ DEBUG_PARSING \in BOOLEAN

----------------------------------------------------------------------------
(* Helpers of the properties *)

KeysOf(layers) == {LayerKey(layers[i]) : i \in 1..Len(layers)}

Successful(docs) == {i \in 1..Len(docs) : docs[i].success}

ExcelKeys(docs) == UNION {KeysOf(docs[i].layers) : i \in Successful(docs)}

PdfDocKeys(doc) ==
    {<<doc.part_of_data[i].layer_limit, doc.part_of_data[i].attachment>> :
        i \in 1..Len(doc.part_of_data)}
    \cup {<<doc.limits[i].limit, doc.limits[i].attachment>> :
             i \in 1..Len(doc.limits)}

PdfKeys(docs) == UNION {PdfDocKeys(docs[i]) : i \in Successful(docs)}

\* the carriers of the layer with this key, <<>> when there is none
BucketOf(layers, key) ==
    IF KeysOf(layers) = {} \/ key \notin KeysOf(layers) THEN <<>>
    ELSE layers[CHOOSE i \in 1..Len(layers) : LayerKey(layers[i]) = key].carriers

\* what the limbs below limb i carry into it when x is multiplied by m
RECURSIVE CarryInto(_, _, _)
CarryInto(x, m, i) ==
    IF i = Len(x) THEN 0
    ELSE (x[i + 1] * m + CarryInto(x, m, i + 1)) \div LimbBase

\* the whole part of the real number x * m
WholePartOfTimes(x, m) == x[1] * m + CarryInto(x, m, 1)

\* the real number x * m rounded to the nearest whole number
TimesRounded(x, m) ==
    WholePartOfTimes(x, m)
    + (IF (x[2] * m + CarryInto(x, m, 2)) % LimbBase >= LimbBase \div 2
       THEN 1 ELSE 0)

\* the real number x is less than 1/10000
LessThanTenThousandth(x) == WholePartOfTimes(x, 10000) = 0

\* the duplicate rule as the specification words it: the same name and two
\* shares whose difference, a real number, is below 0.0001
Near(a, b) ==
    /\ a.carrier_name = b.carrier_name
    /\ LessThanTenThousandth(Distance(a.share, b.share))

Permute(list, f) == [i \in 1..Len(list) |-> list[f[i]]]

----------------------------------------------------------------------------
(* C1 *)

\* C1: in parse_excel_program, for every sheet of a workbook, a layer that is
\* still pending when the sheet's rows end and has at least one carrier is in
\* the layers of the parse result, with every one of its carriers (or a
\* duplicate of it).  The code flushes only after the last sheet.
C1_PendingLayerOfEverySheetIsFlushed ==
    (excel_result # <<>> /\ excel_result[1].success) =>
        \A i \in 1..Len(pending_at_sheet_end) :
            LET pending == pending_at_sheet_end[i]
                bucket == BucketOf(excel_result[1].layers, LayerKey(pending))
            IN  /\ LayerKey(pending) \in KeysOf(excel_result[1].layers)
                /\ \A c \in Range(pending.carriers) :
                       \E e \in Range(bucket) : Near(e, c)

----------------------------------------------------------------------------
(* C2 *)

\* C2: merge_excel_programs and merge_parsed_documents return exactly one layer
\* per distinct (limit, attachment) key of the successful inputs: no two output
\* layers share a key and every key of a successful input is in the output.
C2_OneLayerPerKey ==
    /\ excel_merged # <<>> =>
           /\ DistinctKeys(excel_merged[1].layers)
           /\ KeysOf(excel_merged[1].layers) = ExcelKeys(excel_data_list)
    /\ pdf_merged # <<>> =>
           /\ DistinctKeys(pdf_merged[1].layers)
           /\ KeysOf(pdf_merged[1].layers) = PdfKeys(parsed_docs)

\* two parse results state the same key and there are two keys of one attachment
C2_Witness ==
    /\ excel_merged # <<>>
    /\ \E i, j \in Successful(excel_data_list) :
           i < j /\ KeysOf(excel_data_list[i].layers)
                        \cap KeysOf(excel_data_list[j].layers) # {}
    /\ \E k1, k2 \in KeysOf(excel_merged[1].layers) : k1 # k2 /\ k1[2] = k2[2]

----------------------------------------------------------------------------
(* C3 *)

\* the last carrier of the last layer of the last parse result is the last one
\* merge_excel_programs takes in
HasLastCarrier(docs) ==
    /\ docs # <<>>
    /\ docs[Len(docs)].success
    /\ docs[Len(docs)].layers # <<>>
    /\ docs[Len(docs)].layers[Len(docs[Len(docs)].layers)].carriers # <<>>

LastLayer(docs) == docs[Len(docs)].layers[Len(docs[Len(docs)].layers)]

LastCarrier(docs) == LastLayer(docs).carriers[Len(LastLayer(docs).carriers)]

WithoutLastCarrier(docs) ==
    [docs EXCEPT ![Len(docs)].layers[Len(docs[Len(docs)].layers)].carriers =
        SubSeq(@, 1, Len(@) - 1)]

\* the bucket of the last carrier's layer just before the carrier comes in
BucketBeforeLast(docs) ==
    BucketOf(MergeExcelDocs(<<>>, WithoutLastCarrier(docs)),
             LayerKey(LastLayer(docs)))

\* C3: in merge_excel_programs an incoming carrier is an exact duplicate of an
\* entry of its bucket iff the names are equal and the shares differ by less
\* than 0.0001; then its premium, carrier_fee and surplus_fee are added to that
\* entry and no entry is added; otherwise it is appended as a new entry.
C3_ExactDuplicateRule ==
    (excel_merged # <<>> /\ HasLastCarrier(excel_data_list)) =>
        LET c == LastCarrier(excel_data_list)
            existing == BucketBeforeLast(excel_data_list)
            after == BucketOf(excel_merged[1].layers,
                              LayerKey(LastLayer(excel_data_list)))
            dups == {i \in 1..Len(existing) : Near(existing[i], c)}
        IN  IF dups # {}
            THEN \E i \in dups :
                    after = [existing EXCEPT
                                ![i].premium = @ + c.premium,
                                ![i].carrier_fee = @ + c.carrier_fee,
                                ![i].surplus_fee = @ + c.surplus_fee]
            ELSE after = Append(existing, c)

\* the incoming carrier is absorbed by an entry of another share, next to an
\* entry of the same share and another name
C3_Witness ==
    /\ excel_merged # <<>>
    /\ HasLastCarrier(excel_data_list)
    /\ LET c == LastCarrier(excel_data_list)
           existing == BucketBeforeLast(excel_data_list)
       IN  /\ \E i \in 1..Len(existing) :
                  Near(existing[i], c) /\ existing[i].share # c.share
           /\ \E i \in 1..Len(existing) :
                  existing[i].carrier_name # c.carrier_name

----------------------------------------------------------------------------
(* C4 *)

\* C4: in merge_parsed_documents, two part-of allocations of one (limit,
\* attachment) key with the same carrier name and shares 0.0001 or more apart
\* give two carrier entries in that layer.  The code matches by name alone.
C4_PartOfSharesKeptApart ==
    pdf_merged # <<>> =>
        \A i, j \in Successful(parsed_docs) :
            \A p \in Range(parsed_docs[i].part_of_data),
               q \in Range(parsed_docs[j].part_of_data) :
                (/\ p.layer_limit = q.layer_limit
                 /\ p.attachment = q.attachment
                 /\ p.carrier_name = q.carrier_name
                 /\ ~LessThanTenThousandth(Distance(p.share, q.share)))
                => LET bucket == BucketOf(pdf_merged[1].layers,
                                          <<p.layer_limit, p.attachment>>)
                   IN  Cardinality({n \in 1..Len(bucket) :
                           bucket[n].carrier_name = p.carrier_name}) >= 2

----------------------------------------------------------------------------
(* C5 *)

\* every layer and entry of single is in double at the same place, with twice
\* the premium and fees
Doubled(single, double) ==
    /\ Len(double.layers) = Len(single.layers)
    /\ \A i \in 1..Len(single.layers) :
           /\ LayerKey(double.layers[i]) = LayerKey(single.layers[i])
           /\ Len(double.layers[i].carriers) = Len(single.layers[i].carriers)
           /\ \A j \in 1..Len(single.layers[i].carriers) :
                  LET s1 == single.layers[i].carriers[j]
                      s2 == double.layers[i].carriers[j]
                  IN  /\ s2.carrier_name = s1.carrier_name
                      /\ s2.share = s1.share
                      /\ s2.premium = 2 * s1.premium
                      /\ s2.carrier_fee = 2 * s1.carrier_fee
                      /\ s2.surplus_fee = 2 * s1.surplus_fee

\* C5: merging two identical copies of one spreadsheet parse result gives the
\* same number of layers as merging the single copy, the same number of carrier
\* entries per layer, and premium and fees twice the single-copy values.
C5_MergeOfTwoCopies ==
    /\ \A i \in 1..Len(excel_data_list) :
           Doubled(merge_excel_programs(<<excel_data_list[i]>>),
                   merge_excel_programs(<<excel_data_list[i], excel_data_list[i]>>))
    /\ (/\ excel_merged # <<>>
        /\ Len(excel_data_list) = 2
        /\ excel_data_list[1] = excel_data_list[2])
       => Doubled(merge_excel_programs(<<excel_data_list[1]>>), excel_merged[1])

\* two copies of a parse result with carriers were merged, and some parse
\* result has two layers
C5_Witness ==
    /\ excel_merged # <<>>
    /\ Len(excel_data_list) = 2
    /\ excel_data_list[1] = excel_data_list[2]
    /\ excel_data_list[1].success
    /\ excel_data_list[1].layers # <<>>
    /\ excel_merged[1].layers[1].carriers[1].premium > 0

----------------------------------------------------------------------------
(* C6 *)

CarrierNames(carriers) == {carriers[i].carrier_name : i \in 1..Len(carriers)}

NameCount(carriers, name) ==
    Cardinality({i \in 1..Len(carriers) : carriers[i].carrier_name = name})

SameLayers(m1, m2) == KeysOf(m1.layers) = KeysOf(m2.layers)

SameNames(m1, m2) ==
    \A key \in KeysOf(m1.layers) :
        CarrierNames(BucketOf(m1.layers, key)) = CarrierNames(BucketOf(m2.layers, key))

SameNameCounts(m1, m2) ==
    \A key \in KeysOf(m1.layers) :
        \A name \in CarrierNames(BucketOf(m1.layers, key)) :
            NameCount(BucketOf(m1.layers, key), name)
                = NameCount(BucketOf(m2.layers, key), name)

\* all carriers the successful parse results state under a key
InputCarriers(docs, key) ==
    UNION {UNION {Range(docs[i].layers[n].carriers) :
                     n \in {m \in 1..Len(docs[i].layers) :
                               LayerKey(docs[i].layers[m]) = key}} :
              i \in Successful(docs)}

\* being exact duplicates is transitive on the input carriers of every key
DuplicatesTransitive(docs) ==
    \A key \in ExcelKeys(docs) :
        \A a, b, c \in InputCarriers(docs, key) :
            (Near(a, b) /\ Near(b, c)) => Near(a, c)

\* C6 as stated: for any two orderings of the list of parse results the merged
\* output has the same set of layers and, in each layer, the same number of
\* carrier entries for each carrier name.
C6_OrderKeepsEntryCounts ==
    excel_merged # <<>> =>
        \A f \in Permutations(1..Len(excel_data_list)) :
            LET other == merge_excel_programs(Permute(excel_data_list, f))
            IN  /\ SameLayers(excel_merged[1], other)
                /\ SameNameCounts(excel_merged[1], other)

\* C6 as amended: for any two orderings the merged output has the same set of
\* layers and, in each layer, the same set of carrier names; the number of
\* entries for each carrier name is the same whenever being exact duplicates
\* is transitive among the input carriers of each layer.
C6_OrderKeepsLayersAndNames ==
    excel_merged # <<>> =>
        LET transitive == DuplicatesTransitive(excel_data_list)
        IN  \A f \in Permutations(1..Len(excel_data_list)) :
                LET other == merge_excel_programs(Permute(excel_data_list, f))
                IN  /\ SameLayers(excel_merged[1], other)
                    /\ SameNames(excel_merged[1], other)
                    /\ transitive => SameNameCounts(excel_merged[1], other)

\* another order makes another entry absorb the premiums, and a failed parse
\* result is in the list
C6_Witness ==
    /\ excel_merged # <<>>
    /\ DuplicatesTransitive(excel_data_list)
    /\ \E i \in 1..Len(excel_data_list) : ~excel_data_list[i].success
    /\ \E f \in Permutations(1..Len(excel_data_list)) :
           \E key \in KeysOf(excel_merged[1].layers) :
               BucketOf(merge_excel_programs(Permute(excel_data_list, f)).layers, key)
                   # BucketOf(excel_merged[1].layers, key)

----------------------------------------------------------------------------
(* C7 *)

RECURSIVE CarriersOfKey(_, _)
CarriersOfKey(layers, key) ==
    IF layers = <<>> THEN <<>>
    ELSE (IF LayerKey(Head(layers)) = key THEN Head(layers).carriers ELSE <<>>)
         \o CarriersOfKey(Tail(layers), key)

\* the carriers the successful parse results state under key, in document order
RECURSIVE Concatenation(_, _)
Concatenation(docs, key) ==
    IF docs = <<>> THEN <<>>
    ELSE (IF Head(docs).success THEN CarriersOfKey(Head(docs).layers, key) ELSE <<>>)
         \o Concatenation(Tail(docs), key)

NoTwoNear(carriers) ==
    \A i, j \in 1..Len(carriers) : i < j => ~Near(carriers[i], carriers[j])

\* C7: when parse results state one (limit, attachment) layer with carriers
\* that are not exact duplicates of each other, merge_excel_programs returns a
\* single layer for that key whose carriers are the documents' carriers in
\* document order, shares unchanged.
C7_ConcatenationInDocumentOrder ==
    excel_merged # <<>> =>
        \A key \in ExcelKeys(excel_data_list) :
            NoTwoNear(Concatenation(excel_data_list, key)) =>
                /\ Cardinality({i \in 1..Len(excel_merged[1].layers) :
                       LayerKey(excel_merged[1].layers[i]) = key}) = 1
                /\ BucketOf(excel_merged[1].layers, key)
                       = Concatenation(excel_data_list, key)

\* the example: carrier A with a line of 25M in one document and carrier B with
\* a line of 25M in another, both of the 50M primary layer
C7_Witness ==
    /\ excel_merged # <<>>
    /\ Len(excel_data_list) = 2
    /\ \A i \in 1..2 :
           /\ excel_data_list[i].success
           /\ Len(excel_data_list[i].layers) = 1
           /\ LayerKey(excel_data_list[i].layers[1]) = <<50000, 0>>
    /\ excel_data_list[1].layers[1].carriers = <<CarrierOfRow(
           DataRow("Acme Re", 25000, 100, 10, 1), 50000)>>
    /\ excel_data_list[2].layers[1].carriers = <<CarrierOfRow(
           DataRow("Beta Mutual", 25000, 800, 80, 8), 50000)>>
    /\ Len(excel_merged[1].layers) = 1
    /\ LET carriers == excel_merged[1].layers[1].carriers
       IN  /\ Len(carriers) = 2
           /\ carriers[1].carrier_name = "Acme Re"
           /\ carriers[2].carrier_name = "Beta Mutual"
           /\ carriers[1].share = carriers[2].share
           /\ TimesRounded(carriers[1].share, 2) = 1

----------------------------------------------------------------------------
(* C8 *)

\* C8: the layers returned by merge_excel_programs, by merge_parsed_documents
\* and by a successful parse_excel_program are in non-decreasing order of
\* attachment.
C8_LayersSortedByAttachment ==
    /\ excel_merged # <<>> => IsSortedByAttachment(excel_merged[1].layers)
    /\ pdf_merged # <<>> => IsSortedByAttachment(pdf_merged[1].layers)
    /\ (excel_result # <<>> /\ excel_result[1].success)
           => IsSortedByAttachment(excel_result[1].layers)

\* a workbook that states an excess layer before a primary layer was parsed
C8_Witness ==
    /\ excel_result # <<>>
    /\ excel_result[1].success
    /\ Len(excel_result[1].layers) >= 2
    /\ ~IsSortedByAttachment(Flush(all_layers, current_layer))

----------------------------------------------------------------------------
(* C9 *)

OnlySuccessful(docs) == SelectSeq(docs, LAMBDA d : d.success)

\* C9: a merge takes in every successful document whatever failed documents
\* come before or after it, failed documents contribute nothing, and
\* documents_processed + documents_failed is the number of parse results,
\* documents_processed counting the successful ones (also those with no layers).
C9_FailedDocumentsAreSkipped ==
    /\ excel_merged # <<>> =>
           /\ excel_merged[1].documents_processed
                  = Cardinality(Successful(excel_data_list))
           /\ excel_merged[1].documents_processed
                  + excel_merged[1].documents_failed = Len(excel_data_list)
           /\ excel_merged[1].layers
                  = merge_excel_programs(OnlySuccessful(excel_data_list)).layers
           /\ KeysOf(excel_merged[1].layers) = ExcelKeys(excel_data_list)
    /\ pdf_merged # <<>> =>
           /\ pdf_merged[1].documents_processed
                  = Cardinality(Successful(parsed_docs))
           /\ pdf_merged[1].documents_processed
                  + pdf_merged[1].documents_failed = Len(parsed_docs)
           /\ pdf_merged[1].layers
                  = merge_parsed_documents(OnlySuccessful(parsed_docs)).layers
           /\ KeysOf(pdf_merged[1].layers) = PdfKeys(parsed_docs)

\* a failed document, then a document with layers, then one without
C9_Witness ==
    /\ pdf_merged # <<>>
    /\ Len(parsed_docs) = 3
    /\ ~parsed_docs[1].success
    /\ parsed_docs[2].success /\ PdfDocKeys(parsed_docs[2]) # {}
    /\ parsed_docs[3].success /\ PdfDocKeys(parsed_docs[3]) = {}
    /\ pdf_merged[1].layers # <<>>
    /\ pdf_merged[1].documents_processed = 2
    /\ pdf_merged[1].documents_failed = 1

----------------------------------------------------------------------------
(* C10 *)

\* C10: parse_excel_program and parse_insurance_pdf do not raise: when the
\* input cannot be opened or a step of the parse fails they return success =
\* false, an error message and empty layers / limits; a parse that completes
\* returns success = true and no error.
C10_FailuresAreReturned ==
    /\ pc = "done" =>
           /\ Len(excel_result) = 1
           /\ excel_result[1].success = ~raised
           /\ excel_result[1].success => excel_result[1].error = None
           /\ ~excel_result[1].success =>
                  /\ excel_result[1].error # None
                  /\ excel_result[1].layers = <<>>
    /\ pdf_file # <<>> =>
           /\ Len(pdf_result) = 1
           /\ pdf_result[1].success = pdf_file[1].readable
           /\ pdf_result[1].success => pdf_result[1].error = None
           /\ ~pdf_result[1].success =>
                  /\ pdf_result[1].error # None
                  /\ pdf_result[1].limits = <<>>
                  /\ pdf_result[1].carriers = <<>>

\* the parse failed on a row after a layer with carriers had been collected
C10_Witness ==
    /\ pc = "done"
    /\ raised
    /\ rows_read > 0
    /\ Flush(all_layers, current_layer) # <<>>
    /\ ~excel_result[1].success

----------------------------------------------------------------------------
(* C11 *)

PrimaryAtGround(layer) == layer.is_primary => layer.attachment = 0

AllPrimaryAtGround(layers) ==
    \A i \in 1..Len(layers) : PrimaryAtGround(layers[i])

\* C11: every layer produced by the layer recognizers (extract_layer_from_text,
\* is_layer_header_row, extract_limit_patterns), held by the sheet walker,
\* returned in a parse result or returned by either merge function satisfies
\* is_primary => attachment = 0.
C11_PrimaryLayersAttachAtZero ==
    /\ \A text \in Texts : AllPrimaryAtGround(extract_layer_from_text(text))
    /\ \A row \in RowPool : AllPrimaryAtGround(is_layer_header_row(row).layer_info)
    /\ \A text \in PdfTexts : AllPrimaryAtGround(extract_limit_patterns(text))
    /\ AllPrimaryAtGround(all_layers)
    /\ AllPrimaryAtGround(current_layer)
    /\ \A i \in 1..Len(excel_result) : AllPrimaryAtGround(excel_result[i].layers)
    /\ \A i \in 1..Len(pdf_result) :
           /\ AllPrimaryAtGround(pdf_result[i].limits)
           /\ pdf_result[i].success => AllPrimaryAtGround(pdf_result[i].part_of_data)
    /\ \A i \in 1..Len(excel_merged) : AllPrimaryAtGround(excel_merged[i].layers)
    /\ \A i \in 1..Len(pdf_merged) : AllPrimaryAtGround(pdf_merged[i].layers)

\* a document states a limit with an attachment near it and a limit without
\* one: the first is not primary, the second is
C11_Witness ==
    /\ pdf_result # <<>>
    /\ pdf_result[1].success
    /\ \E i, j \in 1..Len(pdf_result[1].limits) :
           /\ ~pdf_result[1].limits[i].is_primary
           /\ pdf_result[1].limits[i].attachment > 0
           /\ pdf_result[1].limits[j].is_primary
           /\ pdf_result[1].limits[j].attachment = 0

----------------------------------------------------------------------------
(* C12 *)

PlainKeys(doc) ==
    {<<doc.limits[i].limit, doc.limits[i].attachment>> : i \in 1..Len(doc.limits)}

\* C12: in merge_parsed_documents each document's part-of allocations are
\* applied before its plain limits, and the document's plain carriers are
\* attached to the bucket of a plain-limit key only when that bucket has no
\* carriers at that moment; a bucket that already holds carriers, from part-of
\* data or from an earlier document, receives no carriers from plain limits.
C12_PlainLimitsAreAFallback ==
    pdf_merged # <<>> =>
        /\ pdf_merged[1].layers = SortByAttachment(MergePdfDocs(<<>>, parsed_docs))
        /\ \A n \in Successful(parsed_docs) :
               LET doc == parsed_docs[n]
                   before == MergePdfDocs(<<>>, SubSeq(parsed_docs, 1, n - 1))
                   with_part_of == MergePartOfs(before, doc.part_of_data,
                                                doc.policy_number)
                   after == MergePdfDocs(<<>>, SubSeq(parsed_docs, 1, n))
               IN  \A key \in KeysOf(after) :
                       IF key \in PlainKeys(doc) /\ BucketOf(with_part_of, key) = <<>>
                       THEN /\ CarrierNames(BucketOf(after, key))
                                   = CarrierNames(doc.carriers)
                            /\ Len(BucketOf(after, key))
                                   = Cardinality(CarrierNames(doc.carriers))
                       ELSE BucketOf(after, key) = BucketOf(with_part_of, key)

\* one document states a part-of allocation and a plain limit of the same key
\* and a plain carrier: the layer holds the part-of carrier alone
C12_Witness ==
    /\ pdf_merged # <<>>
    /\ \E n \in Successful(parsed_docs) :
           LET doc == parsed_docs[n]
           IN  /\ doc.carriers # <<>>
               /\ \E i \in 1..Len(doc.part_of_data) :
                      LET part_of == doc.part_of_data[i]
                          key == <<part_of.layer_limit, part_of.attachment>>
                      IN  /\ key \in PlainKeys(doc)
                          /\ CarrierNames(BucketOf(pdf_merged[1].layers, key))
                                 = {part_of.carrier_name}
                          /\ part_of.carrier_name \notin CarrierNames(doc.carriers)

----------------------------------------------------------------------------
(* C13 *)

\* C13: for any workbook, parse_excel_program called with debug = true returns
\* the parse result (layers, carriers, shares, success, error) it returns with
\* debug = false: after the same rows the walker state is that of a call that
\* ran none of the blocks under "if DEBUG_PARSING", and the result returned,
\* success or failure, is the result of that call; the flag changes only
\* whether debug lines are logged.
C13_DebugFlagKeepsTheResult ==
    /\ pc = "rows" =>
           [all_layers |-> all_layers, current_layer |-> current_layer,
            col_map |-> col_map, error |-> None] = reference
    /\ pc = "done" =>
           excel_result[1] =
               IF reference.error # None
               THEN ExcelFailure(reference.error[1])
               ELSE FinishParseLogging(reference.all_layers,
                                       reference.current_layer, FALSE)
    /\ call = "parse_excel_program" => (traced => debug)

\* a call with debug = true has logged the lines of carrier rows and of the
\* summary and returned layers with carriers
C13_Witness ==
    /\ pc = "done"
    /\ debug
    /\ traced
    /\ ~raised
    /\ excel_result[1].success
    /\ Len(excel_result[1].layers) >= 2
    /\ rows_read >= 4

----------------------------------------------------------------------------
(* C14 *)

\* C14: two parse_excel_program calls running concurrently share no mutable
\* state: in every interleaving a call logs debug lines only when its own debug
\* argument is set, and once both calls have returned DEBUG_PARSING has the
\* value it had before either started (false).  The calls share the module
\* level DEBUG_PARSING, which each saves on entry and restores on return.
C14_ConcurrentParsesAreIndependent ==
    call = "concurrent_parses" =>
        /\ \A i \in 1..2 : calls[i].traced => calls[i].debug
        /\ (\A i \in 1..2 : calls[i].pc = "returned") => DEBUG_PARSING = FALSE

----------------------------------------------------------------------------
(* C15 *)

\* the row iteration has appended a carrier record to the current layer: the
\* layer has a carrier it had not, or it is a layer the row has started after
\* saving the one before
CarrierAppended ==
    /\ current_layer' # None
    /\ current_layer'[1].carriers # <<>>
    /\ \/ current_layer = None
       \/ current_layer'[1].carriers # current_layer[1].carriers
       \/ all_layers' # all_layers

\* the record the row iteration has appended
AppendedCarrier == current_layer'[1].carriers[Len(current_layer'[1].carriers)]

\* the share is line / limit: times the limit it gives the line back, to the
\* nearest thousand dollars; it is 0.0 without a line or without a limit
ShareAsStated(share, line, limit) ==
    IF line > 0 /\ limit > 0
    THEN TimesRounded(share, limit) = line
    ELSE share = Float(0)

\* what the row iteration of a data row must append, from the cells of the row
AppendedAsStated(row) ==
    LET line == ColumnAmount(row, col_map.line)
        premium_cell == ColumnAmount(row, col_map.premium)
        total_cell == ColumnAmount(row, col_map.total)
        premium == IF premium_cell = 0 THEN total_cell ELSE premium_cell
    IN  /\ line > 0 \/ premium > 0
        /\ ShareAsStated(AppendedCarrier.share, line, current_layer'[1].limit)
        /\ AppendedCarrier.premium = premium

\* C15: a carrier record appended under the active layer has share
\* line / layer.limit when line and limit are positive and 0 otherwise (a line
\* of 25,000,000 under a limit of 100,000,000 gives 0.25); it is appended only
\* if line > 0 or premium > 0, and its premium is the total column's amount
\* when the premium column yields 0.
C15_ShareAndAcceptanceOfACarrier ==
    [][\A row \in RowPool :
           (ReadRow(row) /\ CarrierAppended) => AppendedAsStated(row)]_vars

\* under a 100M layer a line of 25M has given the share 0.25, and a row with
\* no line and no premium but a total has been appended with share 0
C15_Witness ==
    /\ pc = "rows"
    /\ current_layer # None
    /\ current_layer[1].limit = 100000
    /\ col_map.total # NoCol
    /\ \E i, j \in 1..Len(current_layer[1].carriers) :
           /\ current_layer[1].carriers[i].share = [Float(0) EXCEPT ![2] = 64]
           /\ current_layer[1].carriers[j].share = Float(0)
           /\ current_layer[1].carriers[j].premium = 1

----------------------------------------------------------------------------
(* C16 *)

\* excel_parser.py 581-639: the step of the row loop that claims a row
RowClass(row) ==
    IF ~AnyTruthy(row) \/ is_skip_row(row) THEN "Skip"
    ELSE IF is_total_row(row) THEN "Total"
    ELSE IF is_layer_header_row(row).is_layer THEN "LayerHeader"
    ELSE IF is_participant_header_row(row) THEN "ColumnHeader"
    ELSE "Data"

\* C16: rows are classified in the order Skip, Total, LayerHeader,
\* ColumnHeader, Data.  A divider row that holds a total keyword is a Skip row,
\* and a row iteration on a Skip or a Total row changes neither the layer
\* list, nor the current layer and its carriers, nor the column map, also when
\* the row holds a layer label, column headers or a carrier.
C16_SkipAndTotalRowsChangeNothing ==
    [][/\ RowClass(DividerTotalRow) = "Skip"
       /\ \A row \in RowPool :
              (ReadRow(row) /\ RowClass(row) \in {"Skip", "Total"}) =>
                  UNCHANGED <<all_layers, current_layer, col_map>>]_vars

\* a layer is open with one carrier and its columns mapped after four rows,
\* and the divider row with a total keyword, a total row with a layer label
\* and a divider row with a carrier are rows the workbook may hold next
C16_Witness ==
    /\ pc = "rows"
    /\ workbook = "layout"
    /\ rows_read = 4
    /\ current_layer # None
    /\ Len(current_layer[1].carriers) = 1
    /\ col_map.carrier # NoCol
    /\ is_skip_row(DividerTotalRow) /\ is_total_row(DividerTotalRow)
    /\ \E row \in LayoutPool :
           RowClass(row) = "Total" /\ is_layer_header_row(row).is_layer
    /\ \E row \in LayoutPool :
           /\ RowClass(row) = "Skip"
           /\ ExtractCarrier(current_layer[1], col_map, row) # <<>>

----------------------------------------------------------------------------
(* C17 *)

\* the rule of the cascade a text is recognized by: the first it matches
FirstRule(text) ==
    IF ExcessPattern(text) # <<>> THEN "excess"
    ELSE IF PrimaryPattern(text) # <<>> THEN "primary"
    ELSE IF /\ StandalonePattern(text) # <<>>
            /\ StandalonePattern(text)[1] > 0
            /\ text \in LayerKeywordTexts \cup StrictAmountTexts
    THEN "standalone"
    ELSE "none"

\* C17: extract_layer_from_text applies its rules in the order excess,
\* primary, standalone with keyword, named layer without amount, and returns
\* what the first matching rule gives: a text the excess rule matches gives
\* the first amount as limit, the second as attachment and is_primary false,
\* also when the primary or the standalone rule matches it; a text the primary
\* rule matches and the excess rule does not gives attachment 0 and is_primary
\* true, also when the standalone rule matches it; a text only the standalone
\* rule matches gives its amount at attachment 0; any other text, a named
\* layer without amount included, gives no layer.
C17_FirstMatchingRuleWins ==
    call = "extract_layer_from_text" =>
        LET text == layer_text[1]
            found == layer_found[1]
        IN  /\ FirstRule(text) = "excess" =>
                   found = Some(LayerInfo(ExcessPattern(text)[1],
                                          ExcessPattern(text)[2], FALSE))
            /\ FirstRule(text) = "primary" =>
                   found = Some(LayerInfo(PrimaryPattern(text)[1], 0, TRUE))
            /\ FirstRule(text) = "standalone" =>
                   /\ found # None
                   /\ found[1].limit = StandalonePattern(text)[1]
                   /\ found[1].attachment = 0
            /\ FirstRule(text) = "none" => found = None

\* a text all three amount rules match has been recognized as an excess layer
C17_Witness ==
    /\ call = "extract_layer_from_text"
    /\ ExcessPattern(layer_text[1]) # <<>>
    /\ PrimaryPattern(layer_text[1]) # <<>>
    /\ StandalonePattern(layer_text[1]) # <<>>
    /\ layer_text[1] \in LayerKeywordTexts
    /\ layer_found[1] = Some(LayerInfo(50000, 50000, FALSE))

----------------------------------------------------------------------------
(* C18 *)

\* C18: carrier extraction is attempted only on rows that are none of Skip,
\* Total, LayerHeader or ColumnHeader: the row iteration of a row of one of
\* these classes appends no carrier record to the current layer, whatever
\* column map is active.  The row loop does not end the iteration after the
\* layer header step, so a layer label with a carrier on its row violates it.
C18_OnlyDataRowsGiveCarriers ==
    [][\A row \in RowPool :
           (ReadRow(row) /\ RowClass(row) # "Data") => ~CarrierAppended]_vars

----------------------------------------------------------------------------
(* C19 *)

\* the layer list after a layer header row, as the claim states it
FlushedAsStated ==
    IF current_layer # None /\ Len(current_layer[1].carriers) >= 1
    THEN Append(all_layers, current_layer[1])
    ELSE all_layers

\* the layer a layer header row with recognized layer info starts
StartedLayer(row) ==
    LET info == is_layer_header_row(row).layer_info[1]
    IN  [limit |-> info.limit, attachment |-> info.attachment,
         is_primary |-> info.is_primary, carriers |-> <<>>]

\* C19: on a LayerHeader row the walker appends the current layer to the layer
\* list if and only if it has at least one carrier, then starts a new current
\* layer with the recognized limit, attachment and is_primary and an empty
\* carrier list: at the end of the row iteration the new layer holds nothing
\* but what the header row itself has given.  A carrier accepted on any later
\* row goes to the current layer: a layer of the layer list never changes.
C19_LayerHeaderFlushesAndStartsALayer ==
    [][\A row \in RowPool :
           ReadRow(row) =>
               /\ \A i \in 1..Len(all_layers) :
                      /\ i <= Len(all_layers')
                      /\ all_layers'[i] = all_layers[i]
               /\ (/\ RowClass(row) = "LayerHeader"
                   /\ is_layer_header_row(row).layer_info # None) =>
                      /\ all_layers' = FlushedAsStated
                      /\ current_layer' # None
                      /\ [current_layer'[1] EXCEPT !.carriers = <<>>]
                             = StartedLayer(row)
                      /\ \/ current_layer'[1].carriers = <<>>
                         \/ /\ col_map.carrier # NoCol
                            /\ current_layer'[1].carriers =
                                   ExtractCarrier(StartedLayer(row), col_map, row)
               /\ RowClass(row) # "LayerHeader" => all_layers' = all_layers]_vars

\* a layer with a carrier has been flushed by the next layer header, and a
\* carrier accepted after it is in the new layer
C19_Witness ==
    /\ pc = "rows"
    /\ Len(all_layers) = 1
    /\ Len(all_layers[1].carriers) = 1
    /\ current_layer # None
    /\ LayerKey(current_layer[1]) # LayerKey(all_layers[1])
    /\ Len(current_layer[1].carriers) = 1
    /\ rows_read = 5

----------------------------------------------------------------------------
(* C20 *)

\* a layer header row no layer info is recovered from: a named layer with no
\* amount of at least 1,000,000 in another cell
AmbiguousHeader(row) ==
    /\ RowClass(row) = "LayerHeader"
    /\ is_layer_header_row(row).layer_info = None

\* a layer header row that states its layer
RecognizedHeader(row) ==
    /\ RowClass(row) = "LayerHeader"
    /\ is_layer_header_row(row).layer_info # None

\* C20: after a LayerHeader row no layer info is recovered from, the walker
\* has no active layer: the previous layer is appended to the layer list if
\* it has carriers, and while there is no active layer every row but a
\* LayerHeader row with recognized layer info leaves the walker without an
\* active layer and the layer list as it is, so no carrier is recorded, in
\* particular none in the previous layer.
C20_NoActiveLayerAfterAnAmbiguousHeader ==
    [][\A row \in RowPool :
           ReadRow(row) =>
               /\ AmbiguousHeader(row) =>
                      /\ current_layer' = None
                      /\ all_layers' = FlushedAsStated
               /\ (current_layer = None /\ ~RecognizedHeader(row)) =>
                      /\ current_layer' = None
                      /\ all_layers' = all_layers]_vars

\* a named layer with no amount beside it has flushed the layer before it,
\* and the row after it has left the walker without an active layer
C20_Witness ==
    /\ pc = "rows"
    /\ sheet = 1
    /\ rows_read = 5
    /\ col_map.carrier # NoCol
    /\ Len(all_layers) = 1
    /\ all_layers[1].carriers # <<>>
    /\ current_layer = None
    /\ \E row \in WorkbookRows(workbook) :
           /\ AmbiguousHeader(row)
           /\ \E j \in 2..Len(row) : row[j].kind = "num" /\ row[j].num > 0

----------------------------------------------------------------------------
(* C21 *)

\* C21: within one sheet the column map changes only on a ColumnHeader row: a
\* row iteration on a Skip or a Total row, or on a row that is no column
\* header row, leaves it as it is, a layer header row included; so a data row
\* under a later layer header is read with the column map of the most recent
\* ColumnHeader row of the sheet.
C21_ColumnMapChangesOnlyOnColumnHeaders ==
    [][\A row \in RowPool :
           ReadRow(row) =>
               /\ (\/ RowClass(row) \in {"Skip", "Total"}
                   \/ ~is_participant_header_row(row)) => col_map' = col_map
               /\ (RowClass(row) = "Data" /\ CarrierAppended) =>
                      <<AppendedCarrier>> =
                          ExtractCarrier(current_layer[1], col_map, row)]_vars

\* after one column header row, a second layer without a header row of its
\* own has a carrier read with the columns of that header row
C21_Witness ==
    /\ pc = "rows"
    /\ workbook = "headers"
    /\ sheet = 1
    /\ rows_read = 5
    /\ col_map = map_columns(ColumnHeaderRow)
    /\ Len(all_layers) = 1
    /\ Len(all_layers[1].carriers) = 1
    /\ current_layer # None
    /\ LayerKey(current_layer[1]) # LayerKey(all_layers[1])
    /\ Len(current_layer[1].carriers) = 1
    /\ current_layer[1].carriers[1].surplus_fee > 0

----------------------------------------------------------------------------
(* C22 *)

\* C22: a row that is both a LayerHeader and a ColumnHeader has both effects
\* in that order: the previous layer is flushed if it has carriers and the new
\* layer becomes current, then the column map is recomputed from the same
\* row.  A ColumnHeader row, a LayerHeader or not, is never read as a data
\* row: its row iteration appends no carrier.
C22_LayerHeaderThenColumnHeader ==
    [][\A row \in RowPool :
           (/\ ReadRow(row)
            /\ RowClass(row) \notin {"Skip", "Total"}
            /\ is_participant_header_row(row)) =>
               /\ col_map' = map_columns(row)
               /\ ~CarrierAppended
               /\ RecognizedHeader(row) =>
                      /\ all_layers' = FlushedAsStated
                      /\ current_layer' = Some(StartedLayer(row))
               /\ RowClass(row) = "ColumnHeader" =>
                      /\ all_layers' = all_layers
                      /\ current_layer' = current_layer]_vars

\* a layer label with column headers on its row has flushed the layer before
\* it, started its layer and mapped the columns a later carrier is read with
C22_Witness ==
    /\ pc = "rows"
    /\ workbook = "headers"
    /\ RecognizedHeader(LabelledHeaderRow)
    /\ is_participant_header_row(LabelledHeaderRow)
    /\ col_map = map_columns(LabelledHeaderRow)
    /\ Len(all_layers) = 1
    /\ all_layers[1].carriers # <<>>
    /\ current_layer # None
    /\ LayerKey(current_layer[1]) = LayerKey(StartedLayer(LabelledHeaderRow))
    /\ Len(current_layer[1].carriers) = 1

----------------------------------------------------------------------------
(* C23 *)

\* excel_parser.py 353-368: the cells of a row that match a header keyword
KeywordCells(row) ==
    {i \in 1..Len(row) :
        InTexts(row[i], Texts) /\ HeaderKeywordCount(row[i].text) > 0}

\* C23: a row is a ColumnHeader row only if at least 3 of its cells match a
\* header keyword: the row iteration of a row with one or two keyword cells
\* does not take it for a column header row and leaves the column map as it
\* is.  The count goes up twice for a cell that is exactly a keyword, so two
\* such cells reach 3 and violate it.
C23_ColumnHeaderNeedsThreeKeywordCells ==
    [][\A row \in RowPool :
           (ReadRow(row) /\ Cardinality(KeywordCells(row)) < 3) =>
               /\ ~is_participant_header_row(row)
               /\ col_map' = col_map]_vars

----------------------------------------------------------------------------
(* C24 *)

\* C24: in the results of extract_part_of_patterns, an allocation collected
\* by a pattern with a carrier name is not collected again by a pattern
\* without one: no "Unknown Carrier" result has a raw text that lies inside
\* the raw text of a result with a named carrier.  The code tests whether the
\* collected raw text lies inside the carrier-less match, which is the
\* shorter of the two, so the carrier-less match is kept.
C24_NamedAllocationIsCollectedOnce ==
    call = "extract_part_of_patterns" =>
        \A i, j \in 1..Len(part_of_found[1]) :
            (/\ part_of_found[1][i].carrier_name = "Unknown Carrier"
             /\ part_of_found[1][j].carrier_name # "Unknown Carrier") =>
                <<part_of_found[1][i].raw_text, part_of_found[1][j].raw_text>>
                    \notin WithinText

----------------------------------------------------------------------------
(* C25 *)

\* the layers the sheet walk has collected when the parse returns
WalkedLayers == Flush(all_layers, current_layer)

\* C25: when a workbook has stated one (limit, attachment) layer twice, with
\* one carrier row of the same name and the same share under each, parsing it
\* and merging its single parse result gives one layer with one entry of that
\* carrier whose premium and fees are the sums over both rows.  The parse
\* keeps the first of the two rows and drops the second.
C25_RepeatedLayerSumsItsCarrier ==
    (/\ pc = "done" /\ ~raised
     /\ Len(WalkedLayers) = 2
     /\ LayerKey(WalkedLayers[1]) = LayerKey(WalkedLayers[2])
     /\ Len(WalkedLayers[1].carriers) = 1
     /\ Len(WalkedLayers[2].carriers) = 1
     /\ WalkedLayers[1].carriers[1].carrier_name
            = WalkedLayers[2].carriers[1].carrier_name
     /\ WalkedLayers[1].carriers[1].share = WalkedLayers[2].carriers[1].share) =>
        LET first == WalkedLayers[1].carriers[1]
            second == WalkedLayers[2].carriers[1]
            merged == merge_excel_programs(<<excel_result[1]>>).layers
        IN  /\ Len(merged) = 1
            /\ Len(merged[1].carriers) = 1
            /\ merged[1].carriers[1].carrier_name = first.carrier_name
            /\ merged[1].carriers[1].premium = first.premium + second.premium
            /\ merged[1].carriers[1].carrier_fee
                   = first.carrier_fee + second.carrier_fee
            /\ merged[1].carriers[1].surplus_fee
                   = first.surplus_fee + second.surplus_fee

----------------------------------------------------------------------------
(* C26 *)

\* C26: neither merge modifies any of its input parse results: the layers,
\* the carrier lists and the premiums and fees of the carriers are the same
\* after the call as before it, so merging the same list again returns an
\* equal result.
C26_MergesLeaveTheirInputsAlone ==
    [][/\ MergeExcel =>
              /\ excel_data_list' = excel_data_list
              /\ merge_excel_programs(excel_data_list') = excel_merged'[1]
       /\ MergePdf =>
              /\ parsed_docs' = parsed_docs
              /\ merge_parsed_documents(parsed_docs') = pdf_merged'[1]]_vars

\* two documents named the same carrier on the same layer: the merged entry
\* holds the sum of their premiums, the carrier of the first document its own
C26_Witness ==
    /\ excel_merged # <<>>
    /\ Len(excel_data_list) >= 2
    /\ excel_data_list[1].success
    /\ excel_data_list[1].layers # <<>>
    /\ excel_data_list[1].layers[1].carriers # <<>>
    /\ AppendedAs(excel_data_list, 1, 1, 1) = 1
    /\ excel_merged[1].layers # <<>>
    /\ \E l \in 1..Len(excel_merged[1].layers) :
           /\ LayerKey(excel_merged[1].layers[l])
                  = LayerKey(excel_data_list[1].layers[1])
           /\ excel_merged[1].layers[l].carriers[1].premium
                  > excel_data_list[1].layers[1].carriers[1].premium

----------------------------------------------------------------------------
(* C27 *)

\* C27: every layer of a successful parse result has at least one carrier,
\* and so has every layer the walk has saved: a layer header followed by no
\* accepted carrier row before the next layer header or the end of the input
\* leaves no layer in the result.
C27_EveryParsedLayerHasACarrier ==
    /\ \A i \in 1..Len(all_layers) : all_layers[i].carriers # <<>>
    /\ (excel_result # <<>> /\ excel_result[1].success) =>
           \A i \in 1..Len(excel_result[1].layers) :
               excel_result[1].layers[i].carriers # <<>>

\* the last layer header of the input had no carrier under it, and a parse
\* that returned other layers returned none with its limit and attachment
C27_Witness ==
    /\ pc = "done"
    /\ excel_result # <<>>
    /\ excel_result[1].success
    /\ excel_result[1].layers # <<>>
    /\ current_layer # None
    /\ current_layer[1].carriers = <<>>
    /\ \A i \in 1..Len(excel_result[1].layers) :
           LayerKey(excel_result[1].layers[i]) # LayerKey(current_layer[1])

----------------------------------------------------------------------------
(* C28 *)

\* C28: a row iteration that records a carrier records it in the layer with
\* the limit and attachment of the most recent layer header of the same sheet
\* that stated its layer; while the sheet has had no such header no row
\* records a carrier, so no carrier goes to a layer header of another sheet.
\* Every carrier of a layer of the parse result is a carrier of a walked layer
\* with the same limit and attachment.
C28_CarriersSitUnderTheLastHeaderOfTheirSheet ==
    [][/\ (ReturnParse /\ excel_result'[1].success) =>
              \A i \in 1..Len(excel_result'[1].layers) :
                  \A c \in Range(excel_result'[1].layers[i].carriers) :
                      \E j \in 1..Len(WalkedLayers) :
                          /\ LayerKey(WalkedLayers[j])
                                 = LayerKey(excel_result'[1].layers[i])
                          /\ c \in Range(WalkedLayers[j].carriers)
       /\ \A row \in RowPool :
              ReadRow(row) =>
                  /\ CarrierAppended =>
                         /\ last_header' # None
                         /\ LayerKey(current_layer'[1]) = last_header'[1]
                  /\ last_header' = None =>
                         /\ current_layer' = None
                         /\ all_layers' = all_layers]_vars

\* the second sheet: its layer header has a carrier under it, and the layer
\* saved from the first sheet, with another limit and attachment, has not
\* received it
C28_Witness ==
    /\ pc = "rows"
    /\ sheet = 2
    /\ Len(all_layers) = 1
    /\ last_header # None
    /\ current_layer # None
    /\ Len(current_layer[1].carriers) = 1
    /\ LayerKey(current_layer[1]) = last_header[1]
    /\ LayerKey(all_layers[1]) # last_header[1]
    /\ current_layer[1].carriers[1] \notin Range(all_layers[1].carriers)

----------------------------------------------------------------------------
(* C29 *)

PremiumOf(layers) ==
    SumSeq([i \in 1..Len(layers) |->
               SumSeq([k \in 1..Len(layers[i].carriers) |->
                          layers[i].carriers[k].premium])])

CarrierFeeOf(layers) ==
    SumSeq([i \in 1..Len(layers) |->
               SumSeq([k \in 1..Len(layers[i].carriers) |->
                          layers[i].carriers[k].carrier_fee])])

SurplusFeeOf(layers) ==
    SumSeq([i \in 1..Len(layers) |->
               SumSeq([k \in 1..Len(layers[i].carriers) |->
                          layers[i].carriers[k].surplus_fee])])

\* the number of carrier entries of the layers
EntriesOf(layers) ==
    SumSeq([i \in 1..Len(layers) |-> Len(layers[i].carriers)])

RECURSIVE InputLayers(_)
\* the layers of the successful parse results, one list after the other
InputLayers(docs) ==
    IF docs = <<>> THEN <<>>
    ELSE (IF Head(docs).success THEN Head(docs).layers ELSE <<>>)
         \o InputLayers(Tail(docs))

\* C29: merge_excel_programs conserves money: the premiums of the carrier
\* entries of the output add up to the premiums of the carriers of all layers
\* of the successful input parse results, and so do the carrier fees and the
\* surplus fees.
C29_MergeConservesMoney ==
    excel_merged # <<>> =>
        /\ PremiumOf(excel_merged[1].layers)
               = PremiumOf(InputLayers(excel_data_list))
        /\ CarrierFeeOf(excel_merged[1].layers)
               = CarrierFeeOf(InputLayers(excel_data_list))
        /\ SurplusFeeOf(excel_merged[1].layers)
               = SurplusFeeOf(InputLayers(excel_data_list))

\* a merge that summed a carrier into an entry, next to a failed document:
\* fewer entries than the inputs have carriers, and money of all three kinds
C29_Witness ==
    /\ excel_merged # <<>>
    /\ \E i \in 1..Len(excel_data_list) : ~excel_data_list[i].success
    /\ EntriesOf(excel_merged[1].layers)
           < EntriesOf(InputLayers(excel_data_list))
    /\ PremiumOf(excel_merged[1].layers) > 0
    /\ CarrierFeeOf(excel_merged[1].layers) > 0
    /\ SurplusFeeOf(excel_merged[1].layers) > 0

----------------------------------------------------------------------------
(* C30 *)

\* C30: in every layer of the output of merge_excel_programs no two carrier
\* entries have the same carrier name and shares that differ by less than
\* 0.0001, whatever the list of input parse results.
C30_MergedEntriesAreFarApart ==
    excel_merged # <<>> =>
        \A l \in 1..Len(excel_merged[1].layers) :
            LET carriers == excel_merged[1].layers[l].carriers
            IN  \A i, j \in 1..Len(carriers) :
                    i # j => ~Near(carriers[i], carriers[j])

\* three lines of one carrier 0.00008 apart came from more than one document
\* to one layer: the layer keeps two entries of the carrier, 0.00016 apart
C30_Witness ==
    /\ excel_merged # <<>>
    /\ Len(excel_data_list) >= 2
    /\ EntriesOf(InputLayers(excel_data_list)) = 3
    /\ \E l \in 1..Len(excel_merged[1].layers) :
           LET carriers == excel_merged[1].layers[l].carriers
           IN  /\ Len(carriers) = 2
               /\ carriers[1].carrier_name = carriers[2].carrier_name
               /\ ~Near(carriers[1], carriers[2])
               /\ WholePartOfTimes(Distance(carriers[1].share,
                                             carriers[2].share), 5000) = 0

====
